---- MODULE Spec2Model ----
(***************************************************************************)
(* A model of scripts/uo_owl_extract.py: extraction and merge of UO        *)
(* entries, construction of the name and symbol lookups, and the ordered   *)
(* matching strategies of match_dataset.                                   *)
(*                                                                         *)
(* Python strings are TLA+ strings (Len, SubSeq and \o act on them).       *)
(* Python None is the empty tuple and a present string s is <<s>>, so that *)
(* None and "" stay distinct, as they are in the code.                     *)
(***************************************************************************)
EXTENDS Integers, Sequences, FiniteSets, TLC

(***************************************************************************)
(* Python string primitives used by the code.                              *)
(***************************************************************************)

LowerLetters == "abcdefghijklmnopqrstuvwxyz"

UpperLetters == "ABCDEFGHIJKLMNOPQRSTUVWXYZ"

DigitChars == "0123456789"

Chr(s, i) == SubSeq(s, i, i)

CharSet(s) == {Chr(s, i) : i \in 1..Len(s)}

Rest(s) == SubSeq(s, 2, Len(s))

\* \s of the re module, restricted to the characters the inputs contain.
Whitespace == {" ", "\t", "\n"}

LowerSet == CharSet(LowerLetters)

UpperSet == CharSet(UpperLetters)

DigitSet == CharSet(DigitChars)

LowerMap == [c \in UpperSet |->
               Chr(LowerLetters, CHOOSE i \in 1..26 : Chr(UpperLetters, i) = c)]

IsLower(c) == c \in LowerSet

IsUpper(c) == c \in UpperSet

IsDigit(c) == c \in DigitSet

LowerChar(c) == IF c \in UpperSet THEN LowerMap[c] ELSE c

RECURSIVE Lower(_)
\* str.lower()
Lower(s) == IF s = "" THEN "" ELSE LowerChar(Chr(s, 1)) \o Lower(Rest(s))

RECURSIVE LStrip(_)
LStrip(s) ==
    IF s # "" /\ Chr(s, 1) \in Whitespace THEN LStrip(Rest(s)) ELSE s

RECURSIVE RStrip(_)
RStrip(s) ==
    IF s # "" /\ Chr(s, Len(s)) \in Whitespace
    THEN RStrip(SubSeq(s, 1, Len(s) - 1))
    ELSE s

\* str.strip()
Strip(s) == RStrip(LStrip(s))

\* sub in s
Contains(s, sub) ==
    \E i \in 1..(Len(s) - Len(sub) + 1) : SubSeq(s, i, i + Len(sub) - 1) = sub

StartsWith(s, p) == Len(p) <= Len(s) /\ SubSeq(s, 1, Len(p)) = p

RECURSIVE Replace(_, _, _)
\* s.replace(old, new), old non-empty: leftmost non-overlapping occurrences.
Replace(s, old, new) ==
    IF ~Contains(s, old) THEN s
    ELSE IF StartsWith(s, old)
         THEN new \o Replace(SubSeq(s, Len(old) + 1, Len(s)), old, new)
         ELSE Chr(s, 1) \o Replace(Rest(s), old, new)

RECURSIVE CollapseWhitespace(_)
\* re.sub(r"\s+", " ", s)
CollapseWhitespace(s) ==
    IF s = "" THEN ""
    ELSE IF Chr(s, 1) \in Whitespace
         THEN " " \o CollapseWhitespace(LStrip(s))
         ELSE Chr(s, 1) \o CollapseWhitespace(Rest(s))

RECURSIVE LowerRunEnd(_, _)
\* The last position of the run of lowercase letters of s that holds position i.
LowerRunEnd(s, i) ==
    IF i + 1 <= Len(s) /\ IsLower(Chr(s, i + 1)) THEN LowerRunEnd(s, i + 1) ELSE i

\* set(re.findall(r"[a-z]{n,}", s)): the maximal runs of lowercase letters
\* that are at least n long (the quantifier is greedy).
LowerWords(s, n) ==
    LET starts == { i \in 1..Len(s) :
                      /\ IsLower(Chr(s, i))
                      /\ (i = 1 \/ ~IsLower(Chr(s, i - 1))) }
    IN  { SubSeq(s, i, LowerRunEnd(s, i)) :
            i \in { k \in starts : LowerRunEnd(s, k) - k + 1 >= n } }

(***************************************************************************)
(* None / optional values.                                                 *)
(***************************************************************************)

None == <<>>

Some(s) == <<s>>

\* Python truthiness of an optional string.
Truthy(o) == o # None /\ o[1] # ""

\* (o or "")
OrEmpty(o) == IF Truthy(o) THEN o[1] ELSE ""

(***************************************************************************)
(* Normalisation and the symbol heuristics (Part 3 of the script).         *)
(***************************************************************************)

\* Mutant of CATEGORY_LABELS: the labels as the ontology writes them, which
\* the lowercased label never equals.
CATEGORY_LABELS_Capitalised == {"Unit", "Base Unit", "Prefix"}

CATEGORY_LABELS == {"unit", "base unit", "prefix"}

\* PREFIX_LABEL_RE, a full match of one of the alternatives, ignoring case.
PrefixWords ==
    {"yotta", "zetta", "exa", "peta", "tera", "giga", "mega", "kilo", "hecto",
     "deca", "deka", "deci", "centi", "milli", "micro", "nano", "pico",
     "femto", "atto", "zepto", "yocto"}

PREFIX_LABEL_RE_match(s) == Lower(s) \in PrefixWords

SINGLE_CHAR_PREFIX_SYMBOLS == CharSet("YZEPTGMkhdcmnfazy")

RECURSIVE AllDigits(_)
AllDigits(s) == s = "" \/ (IsDigit(Chr(s, 1)) /\ AllDigits(Rest(s)))

\* POWER_SYNONYMS_RE.match(s): ^10\^\[[-]?\d+\]$
POWER_SYNONYMS_RE_match(s) ==
    LET t == IF s # "" /\ Chr(s, Len(s)) = "\n"
             THEN SubSeq(s, 1, Len(s) - 1) ELSE s
        body == SubSeq(t, 5, Len(t) - 1)
        digits == IF StartsWith(body, "-") THEN Rest(body) ELSE body
    IN  /\ StartsWith(t, "10^[")
        /\ Len(t) >= 6
        /\ Chr(t, Len(t)) = "]"
        /\ digits # ""
        /\ AllDigits(digits)

UO_URI_PREFIX == "http://purl.obolibrary.org/obo/UO_"

\* UO_URI_PATTERN.match(uri): ^http://purl\.obolibrary\.org/obo/UO_\d+$
UO_URI_PATTERN_match(uri) ==
    LET t == IF uri # "" /\ Chr(uri, Len(uri)) = "\n"
             THEN SubSeq(uri, 1, Len(uri) - 1) ELSE uri
        digits == SubSeq(t, Len(UO_URI_PREFIX) + 1, Len(t))
    IN  /\ StartsWith(t, UO_URI_PREFIX)
        /\ digits # ""
        /\ AllDigits(digits)

\* normalize_name(text); text is None or a string.
normalize_name(text) ==
    IF ~Truthy(text) THEN ""
    ELSE LET a == Strip(Lower(text[1]))
             b == Replace(Replace(Replace(a, "·", " "), "*", " "), "_", " ")
         IN  CollapseWhitespace(b)

RECURSIVE SquashAround(_, _)
\* re.sub(r"\s*c\s*", c, s) for a single character c.
SquashAround(s, c) ==
    IF s = "" THEN ""
    ELSE LET t == LStrip(s)
         IN  IF t # "" /\ Chr(t, 1) = c
             THEN c \o SquashAround(LStrip(Rest(t)), c)
             ELSE Chr(s, 1) \o SquashAround(Rest(s), c)

\* normalize_symbol_for_match(text); text is None or a string.
normalize_symbol_for_match(text) ==
    IF ~Truthy(text) THEN ""
    ELSE CollapseWhitespace(
             SquashAround(SquashAround(SquashAround(Strip(text[1]), "·"), "/"), "^"))

SymbolSpecialChars == {"/", "^", "µ", "°", "Ω", "²", "³"}

\* is_symbol_like(text); text is a string.
is_symbol_like(text) ==
    IF text = "" THEN FALSE
    ELSE LET stripped == Strip(text)
         IN  IF Contains(stripped, " ") THEN FALSE
             ELSE IF Len(stripped) > 15 THEN FALSE
             ELSE IF CharSet(stripped) \cap SymbolSpecialChars # {} THEN TRUE
             ELSE IF (\E c \in CharSet(stripped) : IsUpper(c)) /\ Len(stripped) <= 10
                  THEN TRUE
             ELSE IF /\ Len(stripped) <= 5
                     /\ stripped # ""
                     /\ \A c \in CharSet(stripped) : IsLower(c)
                  THEN TRUE
             ELSE FALSE

RECURSIVE JoinLower(_)
\* "".join(" " + syn.lower() for syn in syns)
JoinLower(syns) ==
    IF syns = <<>> THEN ""
    ELSE " " \o Lower(Head(syns)) \o JoinLower(Tail(syns))

\* symbol_match_is_plausible(dataset_unit_name, uo_entry), for a unit name
\* that is a string (None has no .lower(): see Strategy2).
symbol_match_is_plausible(dataset_unit_name, uo_entry) ==
    LET uo_label == Lower(OrEmpty(uo_entry.label))
        unit_lower == Lower(dataset_unit_name)
        unit_words == LowerWords(unit_lower, 3)
        all_uo_text == uo_label \o JoinLower(uo_entry.exact_synonyms)
                                \o JoinLower(uo_entry.related_synonyms)
        uo_words_extended == LowerWords(all_uo_text, 3)
        defn == Lower(OrEmpty(uo_entry.definition))
    IN  IF unit_words \cap uo_words_extended # {} THEN TRUE
        ELSE IF Contains(unit_lower, uo_label) \/ Contains(uo_label, unit_lower)
             THEN TRUE
        ELSE IF \E uw \in unit_words : \E ow \in uo_words_extended :
                    /\ Len(uw) >= 3 /\ Len(ow) >= 3
                    /\ (Contains(ow, uw) \/ Contains(uw, ow))
             THEN TRUE
        ELSE IF \E uw \in unit_words : Len(uw) >= 4 /\ Contains(defn, uw)
             THEN TRUE
        ELSE FALSE

(***************************************************************************)
(* Spelling variants and the decompositions.                               *)
(***************************************************************************)

\* Mutant of SpellingSwaps: the swaps go from the British to the American
\* spelling only.
SpellingSwaps_OneWay(text) ==
    {<<"metre", "meter">>, <<"litre", "liter">>, <<"deka", "deca">>}
    \cup (IF Contains(text, "gramme") THEN {<<"gramme", "gram">>} ELSE {})

\* The swaps list of generate_spelling_variants for a given text.
SpellingSwaps(text) ==
    {<<"meter", "metre">>, <<"metre", "meter">>,
     <<"liter", "litre">>, <<"litre", "liter">>,
     <<"deca", "deka">>, <<"deka", "deca">>}
    \cup (IF /\ Contains(text, "gram")
             /\ ~Contains(text, "gramme")
             /\ ~Contains(text, "program")
          THEN {<<"gram", "gramme">>} ELSE {})
    \cup (IF Contains(text, "gramme") THEN {<<"gramme", "gram">>} ELSE {})

\* generate_spelling_variants(text): a Python set of strings.
generate_spelling_variants(text) ==
    LET swaps == SpellingSwaps(text)
        variants == { Replace(text, sw[1], sw[2]) :
                        sw \in {x \in swaps : Contains(text, x[1])} }
        second_level == UNION { { Replace(v, sw[1], sw[2]) :
                                    sw \in {x \in swaps : Contains(v, x[1])} } :
                                v \in variants }
    IN  (variants \cup second_level) \ {text}

\* End of the maximal whitespace run of s that starts at position i.
RECURSIVE WsRunEnd(_, _)
WsRunEnd(s, i) ==
    IF i + 1 <= Len(s) /\ Chr(s, i + 1) \in Whitespace
    THEN WsRunEnd(s, i + 1) ELSE i

\* The text a trailing "\s+(.+)$" captures when the whitespace run starts at
\* position i of s: None when nothing is left for the group.
TrailingGroup(s, i) ==
    IF i > Len(s) \/ Chr(s, i) \notin Whitespace THEN None
    ELSE LET m == WsRunEnd(s, i)
         IN  IF m < Len(s) THEN Some(SubSeq(s, m + 1, Len(s)))
             ELSE IF m > i THEN Some(SubSeq(s, m, m))
             ELSE None

\* re.match(r"^(.+?)\s+per\s+(.+)$", text): None, or
\* <<group(1).strip(), group(2).strip()>>.
PerMatch(text) ==
    LET n == Len(text)
        ends == { i \in 1..n :
                    /\ i + 1 <= n /\ Chr(text, i + 1) \in Whitespace
                    /\ LET j == WsRunEnd(text, i + 1)
                       IN  /\ j + 3 <= n
                           /\ SubSeq(text, j + 1, j + 3) = "per"
                           /\ TrailingGroup(text, j + 4) # None }
    IN  IF ends = {} THEN None
        ELSE LET i == CHOOSE x \in ends : \A y \in ends : x <= y
                 j == WsRunEnd(text, i + 1)
             IN  <<Strip(SubSeq(text, 1, i)), Strip(TrailingGroup(text, j + 4)[1])>>

\* re.match(rf"^{prefix}\s+(.+)$", text): None, or <<group(1)>>.
ShapeMatch(prefix, text) ==
    IF StartsWith(text, prefix)
    THEN TrailingGroup(text, Len(prefix) + 1)
    ELSE None

(***************************************************************************)
(* Iteration order of a Python set of strings.  It follows the string      *)
(* hashes, which are salted per process (PYTHONHASHSEED): within one run   *)
(* the order of a given set is fixed, between runs it may be any           *)
(* permutation.  The seed selects the permutation.                         *)
(***************************************************************************)

HashSeeds == 0..5

\* Two of the salts: a set of up to three strings is listed under one in the
\* reverse of the order it has under the other.
SampleSeeds == {0, 5}

RECURSIVE Enumerate(_)
Enumerate(S) ==
    IF S = {} THEN <<>>
    ELSE LET x == CHOOSE y \in S : TRUE IN <<x>> \o Enumerate(S \ {x})

RECURSIVE HashOrder(_, _)
\* list(S) under the given hash seed.
HashOrder(S, seed) ==
    IF S = {} THEN <<>>
    ELSE LET c == Enumerate(S)
             n == Len(c)
             x == c[(seed % n) + 1]
         IN  <<x>> \o HashOrder(S \ {x}, seed \div n)

Range(q) == {q[i] : i \in 1..Len(q)}

(***************************************************************************)
(* Part 1: extraction of UO entries from the OWL elements.                 *)
(* An element is [kind, about, children]; a child is [tag, text,           *)
(* resource], text being None for an empty XML element.                    *)
(***************************************************************************)

TAG_LABEL == "rdfs:label"

TAG_SUBCLASS_OF == "rdfs:subClassOf"

TAG_DEPRECATED == "owl:deprecated"

TAG_EXACT_SYN == "oboInOwl:hasExactSynonym"

TAG_RELATED_SYN == "oboInOwl:hasRelatedSynonym"

TAG_NARROW_SYN == "oboInOwl:hasNarrowSynonym"

TAG_DEFINITION == "obo:IAO_0000115"

RECURSIVE LastSegment(_)
\* uri.split("/")[-1]
LastSegment(uri) ==
    IF Contains(uri, "/")
    THEN LastSegment(SubSeq(uri, (CHOOSE i \in 1..Len(uri) : Chr(uri, i) = "/"
                                     /\ \A j \in 1..(i - 1) : Chr(uri, j) # "/") + 1,
                            Len(uri)))
    ELSE uri

\* (child.text or "").strip()
ChildText(child) == Strip(OrEmpty(child.text))

\* One iteration of the loop over the children in extract_uo_entry.
ApplyChild(entry, child) ==
    LET text == ChildText(child) IN
    CASE child.tag = TAG_LABEL -> [entry EXCEPT !.label = Some(text)]
      [] child.tag = TAG_DEFINITION -> [entry EXCEPT !.definition = Some(text)]
      [] child.tag = TAG_EXACT_SYN ->
            IF text # "" THEN [entry EXCEPT !.exact_synonyms = Append(@, text)]
            ELSE entry
      [] child.tag = TAG_RELATED_SYN ->
            IF text # "" THEN [entry EXCEPT !.related_synonyms = Append(@, text)]
            ELSE entry
      [] child.tag = TAG_NARROW_SYN ->
            IF text # "" THEN [entry EXCEPT !.narrow_synonyms = Append(@, text)]
            ELSE entry
      [] child.tag = TAG_DEPRECATED ->
            IF Lower(text) = "true" THEN [entry EXCEPT !.deprecated = TRUE]
            ELSE entry
      [] child.tag = TAG_SUBCLASS_OF ->
            IF UO_URI_PATTERN_match(child.resource)
            THEN [entry EXCEPT !.parent_classes = Append(@, child.resource)]
            ELSE entry
      [] OTHER -> entry

RECURSIVE ApplyChildren(_, _)
ApplyChildren(entry, children) ==
    IF children = <<>> THEN entry
    ELSE ApplyChildren(ApplyChild(entry, Head(children)), Tail(children))

\* extract_uo_entry(element): None, or <<entry>>.
extract_uo_entry(element) ==
    IF ~UO_URI_PATTERN_match(element.about) THEN None
    ELSE Some(ApplyChildren(
             [uri |-> element.about,
              id |-> LastSegment(element.about),
              label |-> None,
              definition |-> None,
              exact_synonyms |-> <<>>,
              related_synonyms |-> <<>>,
              narrow_synonyms |-> <<>>,
              deprecated |-> FALSE,
              parent_classes |-> <<>>],
             element.children))

\* Mutant of ListSetUnion: set(a) ^ set(b) in place of the union.
ListSetUnion_SymmetricDifference(a, b, seed) ==
    HashOrder((Range(a) \ Range(b)) \cup (Range(b) \ Range(a)), seed)

\* list(set(a + b))
ListSetUnion(a, b, seed) == HashOrder(Range(a) \cup Range(b), seed)

\* merge_entry(existing, new_entry): the existing entry after the call.
merge_entry(existing, new_entry, seed) ==
    [existing EXCEPT
       !.label = IF Truthy(new_entry.label) /\ ~Truthy(existing.label)
                 THEN new_entry.label ELSE @,
       !.definition = IF Truthy(new_entry.definition) /\ ~Truthy(existing.definition)
                      THEN new_entry.definition ELSE @,
       !.exact_synonyms = ListSetUnion(@, new_entry.exact_synonyms, seed),
       !.related_synonyms = ListSetUnion(@, new_entry.related_synonyms, seed),
       !.narrow_synonyms = ListSetUnion(@, new_entry.narrow_synonyms, seed),
       !.parent_classes = ListSetUnion(@, new_entry.parent_classes, seed),
       !.deprecated = IF new_entry.deprecated THEN TRUE ELSE @]

\* The body of both loops of parse_uo_owl: entries is the dict, kept as the
\* sequence of its values in insertion order.
StoreEntry(ents, element, seed) ==
    LET extracted == extract_uo_entry(element) IN
    IF extracted = None THEN ents
    ELSE LET entry == extracted[1]
             at == {i \in 1..Len(ents) : ents[i].uri = entry.uri}
         IN  IF at # {}
             THEN [i \in 1..Len(ents) |->
                     IF i \in at THEN merge_entry(ents[i], entry, seed) ELSE ents[i]]
             ELSE Append(ents, entry)

\* root.findall(kind): the elements of that kind, in document order.
FindAll(doc, kind) == SelectSeq(doc, LAMBDA el : el.kind = kind)

(***************************************************************************)
(* Part 3: the lookups.  name_map and symbol_map are defaultdict(list):    *)
(* functions from keys to lists of <<entry, source_type>>, an entry being  *)
(* referred to by its position in uo_entries.                              *)
(***************************************************************************)

EmptyDict == [k \in {} |-> <<>>]

\* key in d: never inserts.
DictContains(d, k) == k \in DOMAIN d

\* d[key] of a defaultdict(list): a missing key is inserted with [].
DictGetItem(d, k) ==
    IF k \in DOMAIN d
    THEN [value |-> d[k], dict |-> d]
    ELSE [value |-> <<>>, dict |-> d @@ (k :> <<>>)]

\* d[key].append(v)
DictAppend(d, k, v) ==
    LET g == DictGetItem(d, k) IN [g.dict EXCEPT ![k] = Append(g.value, v)]

RECURSIVE AddSynonyms(_, _, _, _)
\* The loop over one synonym list in build_uo_lookup, for entry number e.
AddSynonyms(maps, e, syn_list, syn_type) ==
    IF syn_list = <<>> THEN maps
    ELSE
      LET syn_stripped == Strip(Head(syn_list))
          norm == normalize_name(Some(syn_stripped))
          sym_norm == normalize_symbol_for_match(Some(syn_stripped))
          named == IF norm # ""
                   THEN [maps EXCEPT !.name_map = DictAppend(@, norm, <<e, syn_type>>)]
                   ELSE maps
          after ==
            IF syn_stripped = "" THEN maps
            ELSE IF POWER_SYNONYMS_RE_match(syn_stripped) THEN maps
            ELSE IF ~is_symbol_like(syn_stripped) THEN named
            ELSE IF Len(syn_stripped) = 1 /\ syn_stripped \in SINGLE_CHAR_PREFIX_SYMBOLS
                 THEN named
            ELSE IF sym_norm # ""
                 THEN [named EXCEPT !.symbol_map =
                          DictAppend(@, sym_norm, <<e, syn_type \o "_as_symbol">>)]
            ELSE named
      IN  AddSynonyms(after, e, Tail(syn_list), syn_type)

\* Mutant of IndexEntry: the loop body without "if entry["deprecated"]:
\* continue".
IndexEntry_KeepDeprecated(maps, e, entry) ==
    LET norm_label == normalize_name(entry.label) IN
    IF norm_label \in CATEGORY_LABELS THEN maps
    ELSE IF PREFIX_LABEL_RE_match(norm_label) THEN maps
    ELSE
      LET m0 == IF norm_label # ""
                THEN [maps EXCEPT !.name_map = DictAppend(@, norm_label, <<e, "label">>)]
                ELSE maps
          m1 == AddSynonyms(m0, e, entry.exact_synonyms, "exact_synonym")
          m2 == AddSynonyms(m1, e, entry.related_synonyms, "related_synonym")
      IN  AddSynonyms(m2, e, entry.narrow_synonyms, "narrow_synonym")

\* The body of the loop over uo_entries in build_uo_lookup.
IndexEntry(maps, e, entry) ==
    LET norm_label == normalize_name(entry.label) IN
    IF entry.deprecated THEN maps
    ELSE IF norm_label \in CATEGORY_LABELS THEN maps
    ELSE IF PREFIX_LABEL_RE_match(norm_label) THEN maps
    ELSE
      LET m0 == IF norm_label # ""
                THEN [maps EXCEPT !.name_map = DictAppend(@, norm_label, <<e, "label">>)]
                ELSE maps
          m1 == AddSynonyms(m0, e, entry.exact_synonyms, "exact_synonym")
          m2 == AddSynonyms(m1, e, entry.related_synonyms, "related_synonym")
      IN  AddSynonyms(m2, e, entry.narrow_synonyms, "narrow_synonym")

RECURSIVE IndexEntries(_, _, _)
IndexEntries(maps, ents, e) ==
    IF e > Len(ents) THEN maps
    ELSE IndexEntries(IndexEntry(maps, e, ents[e]), ents, e + 1)

\* build_uo_lookup(uo_entries)
build_uo_lookup(ents) ==
    IndexEntries([name_map |-> EmptyDict, symbol_map |-> EmptyDict], ents, 1)

(***************************************************************************)
(* Part 3: the matching strategies of match_dataset.                       *)
(* A dataset record is [unit, symbol, plural, canonical_unit,              *)
(* alternate_unit, property, quantity, system], the first four None or a   *)
(* string (what record.get returns), alternate_unit a list of strings.     *)
(***************************************************************************)

\* Body(v) with v evaluated once: a local variable of the code that is assigned
\* once and read many times.
Bind(v, Body(_)) == CHOOSE r \in {Body(w) : w \in {v}} : TRUE

\* Mutant of Lookup: "pairs = d[key]" and then "if pairs", which makes the
\* defaultdict insert every key that is probed.
Lookup_BySubscript(d, k) ==
    [found |-> DictGetItem(d, k).value # <<>>,
     pairs |-> DictGetItem(d, k).value,
     dict |-> DictGetItem(d, k).dict]

\* The guarded probe the code uses everywhere: "key in d" and, only on
\* success, "pairs = d[key]".
Lookup(d, k) ==
    IF DictContains(d, k)
    THEN [found |-> TRUE, pairs |-> DictGetItem(d, k).value, dict |-> DictGetItem(d, k).dict]
    ELSE [found |-> FALSE, pairs |-> <<>>, dict |-> d]

\* One element of match_info["all_matches"].
Candidate(method, entry) ==
    [method |-> method, uo_uri |-> entry.uri, uo_id |-> entry.id,
     uo_label |-> entry.label]

RECURSIVE ProbeVariants(_, _, _)
\* The loop "for variant in ...: if variant in name_map: return ..." shared by
\* the three try_* helpers: the first variant of the list that is a key.
ProbeVariants(variants, d, prefix) ==
    IF variants = <<>> THEN [result |-> None, dict |-> d]
    ELSE LET l == Lookup(d, Head(variants)) IN
         IF l.found
         THEN [result |-> Some([entry |-> l.pairs[1][1],
                                method |-> prefix \o l.pairs[1][2],
                                variant |-> Head(variants),
                                pairs |-> l.pairs]),
               dict |-> l.dict]
         ELSE ProbeVariants(Tail(variants), l.dict, prefix)

\* Mutant of try_spelling_variant_match: only the first variant is probed.
try_spelling_variant_match_FirstOnly(text, d, seed) ==
    ProbeVariants(SubSeq(HashOrder(generate_spelling_variants(text), seed), 1, 1), d,
                  "spelling_variant_")

\* try_spelling_variant_match(text, name_map)
try_spelling_variant_match(text, d, seed) ==
    ProbeVariants(HashOrder(generate_spelling_variants(text), seed), d,
                  "spelling_variant_")

\* Mutant of try_per_decomposition_match: only the numerator is varied.
try_per_decomposition_match_NumeratorOnly(text, d, seed) ==
    LET per_match == PerMatch(text) IN
    IF per_match = None THEN [result |-> None, dict |-> d]
    ELSE
      LET num_variants == <<per_match[1]>>
                          \o HashOrder(generate_spelling_variants(per_match[1]), seed)
          fulls == [k \in 1..Len(num_variants) |->
                      num_variants[k] \o " per " \o per_match[2]]
      IN  ProbeVariants(SelectSeq(fulls, LAMBDA full : full # text), d, "per_variant_")

\* try_per_decomposition_match(text, name_map)
try_per_decomposition_match(text, d, seed) ==
    LET per_match == PerMatch(text) IN
    IF per_match = None THEN [result |-> None, dict |-> d]
    ELSE
      LET num_variants == <<per_match[1]>>
                          \o HashOrder(generate_spelling_variants(per_match[1]), seed)
          den_variants == <<per_match[2]>>
                          \o HashOrder(generate_spelling_variants(per_match[2]), seed)
          nd == Len(den_variants)
          fulls == [k \in 1..(Len(num_variants) * nd) |->
                      num_variants[((k - 1) \div nd) + 1] \o " per "
                      \o den_variants[((k - 1) % nd) + 1]]
      IN  ProbeVariants(SelectSeq(fulls, LAMBDA full : full # text), d, "per_variant_")

\* try_shape_variant_match(text, name_map)
try_shape_variant_match(text, d, seed) ==
    LET try(prefix, dd) ==
            LET m == ShapeMatch(prefix, text) IN
            IF m = None THEN [result |-> None, dict |-> dd]
            ELSE LET vs == HashOrder(generate_spelling_variants(m[1]), seed)
                 IN  ProbeVariants([i \in 1..Len(vs) |-> prefix \o " " \o vs[i]],
                                   dd, prefix \o "_variant_")
        square == try("square", d)
    IN  IF square.result # None THEN square ELSE try("cubic", square.dict)

\* The candidates a strategy appends for the pairs of a bucket, each with the
\* extra keys that strategy records.
Candidates(pairs, ents, prefix, extra) ==
    [i \in 1..Len(pairs) |->
        Candidate(prefix \o pairs[i][2], ents[pairs[i][1]]) @@ extra]

\* As Candidates, for the strategies that give every candidate the method of
\* the first pair.
CandidatesOneMethod(pairs, ents, method, extra) ==
    [i \in 1..Len(pairs) |-> Candidate(method, ents[pairs[i][1]]) @@ extra]

NoExtra == [k \in {} |-> ""]

\* Mutant of Strategy1: the name looked up is the record's symbol.
Strategy1_BySymbol(st, rec, ents) ==
    LET norm_unit == normalize_name(rec.symbol) IN
    IF norm_unit = "" THEN st
    ELSE LET l == Lookup(st.name_map, norm_unit)
             label_pairs == SelectSeq(l.pairs, LAMBDA p : p[2] = "label")
         IN  IF ~l.found THEN [st EXCEPT !.name_map = l.dict]
             ELSE [st EXCEPT
                     !.name_map = l.dict,
                     !.best = IF label_pairs # <<>>
                              THEN Some(<<"unit_name_to_label", label_pairs[1][1]>>)
                              ELSE Some(<<"unit_name_to_" \o l.pairs[1][2], l.pairs[1][1]>>),
                     !.all_matches = @ \o Candidates(l.pairs, ents, "unit_name_to_", NoExtra)]

\* Strategy 1: unit name -> UO names (label + synonyms).
Strategy1(st, rec, ents) ==
    LET norm_unit == normalize_name(rec.unit) IN
    IF norm_unit = "" THEN st
    ELSE LET l == Lookup(st.name_map, norm_unit)
             label_pairs == SelectSeq(l.pairs, LAMBDA p : p[2] = "label")
         IN  IF ~l.found THEN [st EXCEPT !.name_map = l.dict]
             ELSE [st EXCEPT
                     !.name_map = l.dict,
                     !.best = IF label_pairs # <<>>
                              THEN Some(<<"unit_name_to_label", label_pairs[1][1]>>)
                              ELSE Some(<<"unit_name_to_" \o l.pairs[1][2], l.pairs[1][1]>>),
                     !.all_matches = @ \o Candidates(l.pairs, ents, "unit_name_to_", NoExtra)]

\* Mutant of Strategy2: the pairs of the bucket are taken without the
\* plausibility filter.
Strategy2_Unfiltered(st, rec, ents) ==
    IF st.best # None \/ ~Truthy(rec.symbol) THEN st
    ELSE
      LET sym_norm == normalize_symbol_for_match(rec.symbol) IN
      IF sym_norm = "" THEN st
      ELSE
        LET l == Lookup(st.symbol_map, sym_norm) IN
        IF ~l.found THEN [st EXCEPT !.symbol_map = l.dict]
        ELSE [st EXCEPT
                !.symbol_map = l.dict,
                !.best = Some(<<"symbol_to_synonym", l.pairs[1][1]>>),
                !.all_matches = @ \o Candidates(l.pairs, ents, "symbol_to_", NoExtra)]

\* Strategy 2: symbol -> UO symbol synonyms, filtered by plausibility.
\* unit_name is None when the record's unit is null: None.lower() raises
\* AttributeError at the first pair.
Strategy2(st, rec, ents) ==
    IF st.best # None \/ ~Truthy(rec.symbol) THEN st
    ELSE
      LET sym_norm == normalize_symbol_for_match(rec.symbol) IN
      IF sym_norm = "" THEN st
      ELSE
        LET l == Lookup(st.symbol_map, sym_norm) IN
        IF ~l.found THEN [st EXCEPT !.symbol_map = l.dict]
        ELSE IF rec.unit = None /\ l.pairs # <<>>
             THEN [st EXCEPT !.symbol_map = l.dict, !.raised = TRUE]
        ELSE
          LET plausible == SelectSeq(l.pairs,
                  LAMBDA p : symbol_match_is_plausible(rec.unit[1], ents[p[1]]))
          IN  IF plausible = <<>> THEN [st EXCEPT !.symbol_map = l.dict]
              ELSE [st EXCEPT
                      !.symbol_map = l.dict,
                      !.best = Some(<<"symbol_to_synonym", plausible[1][1]>>),
                      !.all_matches = @ \o Candidates(plausible, ents, "symbol_to_", NoExtra)]

\* Mutant of Strategy3: the candidates are recorded without setting best.
Strategy3_CandidatesOnly(st, rec, ents) ==
    IF st.best # None \/ ~Truthy(rec.plural) THEN st
    ELSE
      LET norm_plural == normalize_name(rec.plural) IN
      IF norm_plural = "" THEN st
      ELSE LET l == Lookup(st.name_map, norm_plural) IN
           IF ~l.found THEN [st EXCEPT !.name_map = l.dict]
           ELSE [st EXCEPT
                   !.name_map = l.dict,
                   !.all_matches = @ \o Candidates(l.pairs, ents, "plural_to_", NoExtra)]

\* Strategy 3: plural -> UO names.
Strategy3(st, rec, ents) ==
    IF st.best # None \/ ~Truthy(rec.plural) THEN st
    ELSE
      LET norm_plural == normalize_name(rec.plural) IN
      IF norm_plural = "" THEN st
      ELSE LET l == Lookup(st.name_map, norm_plural) IN
           IF ~l.found THEN [st EXCEPT !.name_map = l.dict]
           ELSE [st EXCEPT
                   !.name_map = l.dict,
                   !.best = Some(<<"plural_to_uo", l.pairs[1][1]>>),
                   !.all_matches = @ \o Candidates(l.pairs, ents, "plural_to_", NoExtra)]

RECURSIVE AlternateLoop(_, _, _)
\* The loop of strategy 4 over the alternates, from the given list on.
AlternateLoop(st, alternates, ents) ==
    IF alternates = <<>> THEN st
    ELSE
      LET alt == Head(alternates)
          norm_alt == normalize_name(Some(alt))
      IN  IF norm_alt = "" THEN AlternateLoop(st, Tail(alternates), ents)
          ELSE LET l == Lookup(st.name_map, norm_alt) IN
               IF ~l.found
               THEN AlternateLoop([st EXCEPT !.name_map = l.dict], Tail(alternates), ents)
               ELSE [st EXCEPT
                       !.name_map = l.dict,
                       !.best = Some(<<"alternate_unit_to_uo", l.pairs[1][1]>>),
                       !.all_matches = @ \o Candidates(l.pairs, ents, "alternate_unit_to_",
                                                       [alternate_unit |-> alt])]

\* Strategy 4: alternate_unit -> UO names.
Strategy4(st, rec, ents) ==
    IF st.best # None THEN st ELSE AlternateLoop(st, rec.alternate_unit, ents)

\* Mutant of Strategy5: "if canonical:" without "not best".
Strategy5_Unguarded(st, rec, ents) ==
    IF ~Truthy(rec.canonical_unit) THEN st
    ELSE
      LET norm_canon == normalize_name(rec.canonical_unit) IN
      IF norm_canon = "" \/ norm_canon = normalize_name(rec.unit) THEN st
      ELSE LET l == Lookup(st.name_map, norm_canon) IN
           IF ~l.found THEN [st EXCEPT !.name_map = l.dict]
           ELSE [st EXCEPT
                   !.name_map = l.dict,
                   !.best = Some(<<"canonical_unit_to_uo", l.pairs[1][1]>>),
                   !.all_matches = @ \o Candidates(l.pairs, ents, "canonical_unit_to_", NoExtra)]

\* Strategy 5: canonical_unit -> UO names.
Strategy5(st, rec, ents) ==
    IF st.best # None \/ ~Truthy(rec.canonical_unit) THEN st
    ELSE
      LET norm_canon == normalize_name(rec.canonical_unit) IN
      IF norm_canon = "" \/ norm_canon = normalize_name(rec.unit) THEN st
      ELSE LET l == Lookup(st.name_map, norm_canon) IN
           IF ~l.found THEN [st EXCEPT !.name_map = l.dict]
           ELSE [st EXCEPT
                   !.name_map = l.dict,
                   !.best = Some(<<"canonical_unit_to_uo", l.pairs[1][1]>>),
                   !.all_matches = @ \o Candidates(l.pairs, ents, "canonical_unit_to_", NoExtra)]

\* Strategy 6: spelling variant of unit name.
Strategy6(st, rec, ents, seed) ==
    IF st.best # None \/ normalize_name(rec.unit) = "" THEN st
    ELSE
      LET r == try_spelling_variant_match(normalize_name(rec.unit), st.name_map, seed) IN
      IF r.result = None THEN [st EXCEPT !.name_map = r.dict]
      ELSE [st EXCEPT
              !.name_map = r.dict,
              !.best = Some(<<"spelling_variant", r.result[1].entry>>),
              !.all_matches = @ \o Candidates(r.result[1].pairs, ents, "spelling_variant_",
                                              [variant |-> r.result[1].variant])]

\* Strategy 7: per-decomposition with spelling variants.
Strategy7(st, rec, ents, seed) ==
    IF st.best # None \/ normalize_name(rec.unit) = "" THEN st
    ELSE
      LET r == try_per_decomposition_match(normalize_name(rec.unit), st.name_map, seed) IN
      IF r.result = None THEN [st EXCEPT !.name_map = r.dict]
      ELSE [st EXCEPT
              !.name_map = r.dict,
              !.best = Some(<<"per_variant", r.result[1].entry>>),
              !.all_matches = @ \o CandidatesOneMethod(r.result[1].pairs, ents,
                                      r.result[1].method, [variant |-> r.result[1].variant])]

\* Strategy 8: square/cubic with spelling variants.
Strategy8(st, rec, ents, seed) ==
    IF st.best # None \/ normalize_name(rec.unit) = "" THEN st
    ELSE
      LET r == try_shape_variant_match(normalize_name(rec.unit), st.name_map, seed) IN
      IF r.result = None THEN [st EXCEPT !.name_map = r.dict]
      ELSE [st EXCEPT
              !.name_map = r.dict,
              !.best = Some(<<"shape_variant", r.result[1].entry>>),
              !.all_matches = @ \o CandidatesOneMethod(r.result[1].pairs, ents,
                                      r.result[1].method, [variant |-> r.result[1].variant])]

RECURSIVE AlternateVariantLoop(_, _, _, _)
\* The loop of strategy 9 over the alternates, from the given list on.
AlternateVariantLoop(st, alternates, ents, seed) ==
    IF alternates = <<>> THEN st
    ELSE
      LET alt == Head(alternates)
          norm_alt == normalize_name(Some(alt))
      IN  IF norm_alt = "" THEN AlternateVariantLoop(st, Tail(alternates), ents, seed)
          ELSE LET r == try_spelling_variant_match(norm_alt, st.name_map, seed) IN
               IF r.result = None
               THEN AlternateVariantLoop([st EXCEPT !.name_map = r.dict],
                                         Tail(alternates), ents, seed)
               ELSE [st EXCEPT
                       !.name_map = r.dict,
                       !.best = Some(<<"alternate_spelling_variant", r.result[1].entry>>),
                       !.all_matches = @ \o Candidates(r.result[1].pairs, ents,
                                               "alternate_spelling_variant_",
                                               [alternate_unit |-> alt,
                                                variant |-> r.result[1].variant])]

\* Strategy 9: alternate_unit spelling variants.
Strategy9(st, rec, ents, seed) ==
    IF st.best # None THEN st
    ELSE AlternateVariantLoop(st, rec.alternate_unit, ents, seed)

\* Mutant of ApplyStrategy: the per-decomposition block comes before the
\* spelling-variant block.
ApplyStrategy_PerFirst(n, st, rec, ents, seed) ==
    CASE n = 1 -> Strategy1(st, rec, ents)
      [] n = 2 -> Strategy2(st, rec, ents)
      [] n = 3 -> Strategy3(st, rec, ents)
      [] n = 4 -> Strategy4(st, rec, ents)
      [] n = 5 -> Strategy5(st, rec, ents)
      [] n = 6 -> Strategy7(st, rec, ents, seed)
      [] n = 7 -> Strategy6(st, rec, ents, seed)
      [] n = 8 -> Strategy8(st, rec, ents, seed)
      [] n = 9 -> Strategy9(st, rec, ents, seed)

\* The n-th strategy block of the loop body of match_dataset.
ApplyStrategy(n, st, rec, ents, seed) ==
    CASE n = 1 -> Strategy1(st, rec, ents)
      [] n = 2 -> Strategy2(st, rec, ents)
      [] n = 3 -> Strategy3(st, rec, ents)
      [] n = 4 -> Strategy4(st, rec, ents)
      [] n = 5 -> Strategy5(st, rec, ents)
      [] n = 6 -> Strategy6(st, rec, ents, seed)
      [] n = 7 -> Strategy7(st, rec, ents, seed)
      [] n = 8 -> Strategy8(st, rec, ents, seed)
      [] n = 9 -> Strategy9(st, rec, ents, seed)

\* The state of the loop body of match_dataset after the strategy blocks up to
\* number n have run on the record; an exception ends the iteration.
RECURSIVE AfterStrategy(_, _, _, _, _)
AfterStrategy(n, st0, rec, ents, seed) ==
    IF n = 0 THEN st0
    ELSE LET st == AfterStrategy(n - 1, st0, rec, ents, seed) IN
         IF st.raised THEN st ELSE ApplyStrategy(n, st, rec, ents, seed)

NumStrategies == 9

\* match_info = {...}; best = None
StartRecord(names, symbols) ==
    [best |-> None, all_matches |-> <<>>, name_map |-> names,
     symbol_map |-> symbols, raised |-> FALSE]

\* One iteration of "for record in dataset" up to results.append: the
\* match_info, the lookups as the iteration leaves them, and whether it raised.
MatchRecord(rec, ents, names, symbols, seed) ==
    Bind(AfterStrategy(NumStrategies, StartRecord(names, symbols), rec, ents, seed),
         LAMBDA st :
    LET matched == st.best # None
    IN  [raised |-> st.raised,
         name_map |-> st.name_map,
         symbol_map |-> st.symbol_map,
         match_info |->
           [unit |-> rec.unit,
            symbol |-> rec.symbol,
            property |-> rec.property,
            quantity |-> rec.quantity,
            system |-> rec.system,
            matched |-> matched,
            match_method |-> IF matched THEN Some(st.best[1][1]) ELSE None,
            match_uo_uri |-> IF matched THEN Some(ents[st.best[1][2]].uri) ELSE None,
            match_uo_label |-> IF matched THEN ents[st.best[1][2]].label ELSE None,
            match_uo_id |-> IF matched THEN Some(ents[st.best[1][2]].id) ELSE None,
            all_matches |-> st.all_matches]])

(***************************************************************************)
(* Inputs.                                                                 *)
(***************************************************************************)

MaxEntities == 2

MaxRecords == 2

MaxElements == 3

NumRuns == 2

\* The sequences of at most n distinct members of S.
DistinctSeqs(S, n) ==
    UNION { { q \in [1..k -> S] : \A i, j \in 1..k : i # j => q[i] # q[j] } :
            k \in 0..n }

\* The sequences of at most n members of S.
SeqsUpTo(S, n) == UNION { [1..k -> S] : k \in 0..n }

\* An entry as parse_uo_owl returns it.
UOEntry(number, label, exact, related) ==
    [uri |-> UO_URI_PREFIX \o number,
     id |-> "UO_" \o number,
     label |-> label,
     definition |-> None,
     exact_synonyms |-> exact,
     related_synonyms |-> related,
     narrow_synonyms |-> <<>>,
     deprecated |-> FALSE,
     parent_classes |-> <<>>]

EntryFarad == UOEntry("0000001", Some("farad"), <<"F">>, <<>>)

EntryFahrenheit ==
    UOEntry("0000002", Some("degree fahrenheit"), <<"F">>, <<"fahrenheit">>)

EntryMetre == UOEntry("0000003", Some("metre"), <<"m">>, <<"metres">>)

EntryDensity == UOEntry("0000004", Some("kilogram per cubic metre"), <<>>, <<>>)

\* The three category placeholders, each with synonyms that records use.
EntryCategory == UOEntry("0000005", Some("Unit"), <<"U", "farad">>, <<"metre">>)

EntryBaseUnit == UOEntry("0000045", Some("base unit"), <<"meter">>, <<>>)

EntryPrefix == UOEntry("0000046", Some("Prefix"), <<>>, <<"fahrenheit">>)

EntryConcentration == UOEntry("0000006", Some("dekagram per litre"), <<>>, <<>>)

\* A dataset record as the loop of match_dataset reads it: record.get gives ""
\* for an absent key and None for a JSON null.
Record(unit, symbol, plural, canonical, alternates) ==
    [unit |-> unit, symbol |-> symbol, plural |-> plural,
     canonical_unit |-> canonical, alternate_unit |-> alternates,
     property |-> "", quantity |-> "", system |-> "SI"]

RecordFarad == Record(Some("farad"), Some("F"), Some(""), Some(""), <<>>)

RecordFahrenheit == Record(Some("fahrenheit"), Some("F"), Some(""), Some(""), <<>>)

RecordFarads == Record(Some("Farads"), Some("F"), Some(""), Some("metre"), <<>>)

RecordNoUnit == Record(None, Some("F"), Some("metres"), Some(""), <<>>)

RecordMeter == Record(Some("meter"), Some("m"), Some("meters"), Some(""), <<>>)

RecordDensity ==
    Record(Some("kilogram per cubic meter"), Some("kg/m3"), Some(""), Some(""), <<>>)

RecordDensityPlural ==
    Record(Some("kilogram per cubic meter"), Some(""),
           Some("Kilogram per cubic metre"), Some(""), <<>>)

RecordConcentration ==
    Record(Some("decagramme per liter"), Some(""), Some(""), Some(""), <<>>)

RecordUnit ==
    Record(Some("unit"), Some("U"), Some("units"), Some(""), <<"farad", "meter">>)

EntryRankine == UOEntry("0000020", Some("degree rankine"), <<"R">>, <<"rankines">>)

EntryRankines == UOEntry("0000021", Some("rankines"), <<>>, <<>>)

EntryRoentgen == UOEntry("0000022", Some("roentgen"), <<"R">>, <<>>)

RecordRontgen ==
    Record(Some("rontgen"), Some("R"), Some("rankines"), Some(""), <<>>)

RecordRankineScale ==
    Record(Some("rankine scale"), Some("R"), Some(""), Some(""), <<>>)

RecordRankines ==
    Record(Some("Rankines"), Some(""), Some(""), Some(""), <<>>)

EntrySquareMetre == UOEntry("0000080", Some("square metre"), <<>>, <<>>)

EntryCubicDecametre == UOEntry("0000205", Some("cubic decametre"), <<>>, <<>>)

RecordSquareMeter == Record(Some("Square Meter"), Some(""), Some(""), Some(""), <<>>)

RecordCubicDekameter ==
    Record(Some("cubic dekameter"), Some(""), Some(""), Some(""), <<>>)

\* The inputs of match_dataset come in families: the entities of an ontology
\* fragment and the records of a dataset about the same units.
InputFamilies ==
    {[entities |-> {EntryFarad, EntryFahrenheit, EntryPrefix},
      records |-> {RecordFarad, RecordFahrenheit, RecordNoUnit}],
     [entities |-> {EntryMetre, EntryDensity, EntryConcentration},
      records |-> {RecordDensity, RecordDensityPlural, RecordConcentration}],
     [entities |-> {EntryFarad, EntryMetre, EntryCategory, EntryBaseUnit},
      records |-> {RecordFarad, RecordFarads, RecordMeter, RecordUnit}],
     [entities |-> {EntryRankine, EntryRankines, EntryRoentgen},
      records |-> {RecordRontgen, RecordRankineScale, RecordRankines}],
     [entities |-> {EntrySquareMetre, EntryCubicDecametre},
      records |-> {RecordSquareMeter, RecordCubicDekameter}]}

VARIABLES
    pc,             \* where the run is
    hashseed,       \* the string-hash salt of the process
    root,           \* parse_uo_owl: the elements of the document
    cursor,         \* parse_uo_owl: elements of the current loop already taken
    entries,        \* parse_uo_owl: the entries dict
    uo_entries,     \* match_dataset: the entries passed in
    dataset,        \* match_dataset: the records passed in
    name_map,       \* match_dataset: the name lookup
    symbol_map,     \* match_dataset: the symbol lookup
    results,        \* match_dataset: the match_info list
    matched_count,  \* match_dataset: matched_count
    method_counts,  \* match_dataset: the Counter of methods
    runs,           \* the results of independent runs on the same input
    call,           \* a call of one of the helper functions: name and arguments
    ret,            \* what that call returned
    stats,          \* compute_statistics: the stats dict
    lines,          \* parse_ucum_ttl: the lines of the TTL file
    line_no,        \* parse_ucum_ttl: lines already read
    current_local_name, \* parse_ucum_ttl: the current subject
    uri_to_ucum,    \* parse_ucum_ttl: the mapping built so far
    om_units,       \* om_rdf_extract: the extracted OM units
    om_matches,     \* om_matches.json: the "matches" list
    om_lookup,      \* combine: (unit, symbol) -> OM URI
    uo_matches,     \* uo_matches.json: the "matches" list
    uo_lookup,      \* combine: (unit, symbol) -> UO match
    enriched        \* combine: the enriched records

vars == <<pc, hashseed, root, cursor, entries, uo_entries, dataset, name_map,
          symbol_map, results, matched_count, method_counts, runs, call, ret,
          stats, lines, line_no, current_local_name, uri_to_ucum, om_units,
          om_matches, om_lookup, uo_matches, uo_lookup, enriched>>

callVars == <<call, ret>>

ucumVars == <<lines, line_no, current_local_name, uri_to_ucum>>

omVars == <<om_units, om_matches, om_lookup>>

enrichVars == <<stats, uo_matches, uo_lookup, enriched>>

combineVars == <<ucumVars, omVars, enrichVars>>

\* Nothing of the combiner or of the statistics has run.
CombineIdle ==
    /\ stats = None
    /\ lines = <<>>
    /\ line_no = 0
    /\ current_local_name = None
    /\ uri_to_ucum = EmptyDict
    /\ om_units = <<>>
    /\ om_matches = <<>>
    /\ om_lookup = EmptyDict
    /\ uo_matches = <<>>
    /\ uo_lookup = EmptyDict
    /\ enriched = <<>>

extractVars == <<root, cursor, entries>>

matchVars == <<uo_entries, dataset, name_map, symbol_map, results, matched_count,
               method_counts>>

(***************************************************************************)
(* match_dataset(dataset, uo_entries).                                     *)
(***************************************************************************)

Init ==
    /\ pc = "build"
    /\ hashseed \in SampleSeeds
    /\ \E family \in InputFamilies :
          /\ uo_entries \in DistinctSeqs(family.entities, MaxEntities)
          /\ dataset \in SeqsUpTo(family.records, MaxRecords)
    /\ name_map = EmptyDict
    /\ symbol_map = EmptyDict
    /\ results = <<>>
    /\ matched_count = 0
    /\ method_counts = EmptyDict
    /\ root = <<>>
    /\ cursor = 0
    /\ entries = <<>>
    /\ runs = <<>>
    /\ call = None
    /\ ret = None
    /\ CombineIdle

\* name_map, symbol_map = build_uo_lookup(uo_entries)
BuildLookup ==
    /\ pc = "build"
    /\ name_map' = build_uo_lookup(uo_entries).name_map
    /\ symbol_map' = build_uo_lookup(uo_entries).symbol_map
    /\ pc' = "match"
    /\ UNCHANGED <<combineVars, callVars, hashseed, uo_entries, dataset, results, matched_count,
                   method_counts, runs, extractVars>>

\* Mutant of CounterIncrement: method_counts[method] = 1
CounterIncrement_Assign(counter, key) ==
    IF key \in DOMAIN counter
    THEN [counter EXCEPT ![key] = 1]
    ELSE counter @@ (key :> 1)

\* method_counts[method] += 1
CounterIncrement(counter, key) ==
    IF key \in DOMAIN counter
    THEN [counter EXCEPT ![key] = @ + 1]
    ELSE counter @@ (key :> 1)

\* One iteration of "for record in dataset"; an exception ends the call.
MatchNext ==
    /\ pc = "match"
    /\ Len(results) < Len(dataset)
    /\ \E m \in {MatchRecord(dataset[Len(results) + 1], uo_entries, name_map,
                               symbol_map, hashseed)} :
         /\ name_map' = m.name_map
         /\ symbol_map' = m.symbol_map
         /\ IF m.raised
            THEN /\ pc' = "raised"
                 /\ UNCHANGED <<results, matched_count, method_counts>>
            ELSE /\ pc' = "match"
                 /\ results' = Append(results, m.match_info)
                 /\ matched_count' =
                       IF m.match_info.matched THEN matched_count + 1 ELSE matched_count
                 /\ method_counts' =
                       IF m.match_info.matched
                       THEN CounterIncrement(method_counts, m.match_info.match_method[1])
                       ELSE method_counts
    /\ UNCHANGED <<combineVars, callVars, hashseed, uo_entries, dataset, runs, extractVars>>

\* The loop is exhausted: return results, matched_count, method_counts
ReturnResults ==
    /\ pc = "match"
    /\ Len(results) = Len(dataset)
    /\ pc' = "done"
    /\ UNCHANGED <<combineVars, callVars, hashseed, runs, extractVars, matchVars>>

Next == BuildLookup \/ MatchNext \/ ReturnResults

Spec == Init /\ [][Next]_vars

(***************************************************************************)
(* parse_uo_owl(owl_path).                                                 *)
(***************************************************************************)

KIND_CLASS == "owl:Class"

KIND_DESCRIPTION == "rdf:Description"

Child(tag, text) == [tag |-> tag, text |-> text, resource |-> ""]

ChildResource(tag, resource) == [tag |-> tag, text |-> None, resource |-> resource]

Element(kind, about, children) ==
    [kind |-> kind, about |-> about, children |-> children]

URI_METRE == UO_URI_PREFIX \o "0000008"

URI_FARAD == UO_URI_PREFIX \o "0000220"

URI_PATO == "http://purl.obolibrary.org/obo/PATO_0000001"

ElementPool ==
    {Element(KIND_CLASS, URI_METRE,
             <<Child(TAG_LABEL, Some("metre")),
               Child(TAG_EXACT_SYN, Some("m")),
               Child(TAG_DEFINITION, Some("A length unit."))>>),
     Element(KIND_DESCRIPTION, URI_METRE,
             <<Child(TAG_LABEL, Some(" meter ")),
               Child(TAG_RELATED_SYN, Some("metres")),
               Child(TAG_EXACT_SYN, Some("m")),
               Child(TAG_DEPRECATED, Some("True"))>>),
     Element(KIND_CLASS, URI_METRE,
             <<Child(TAG_LABEL, Some("metre")),
               Child(TAG_LABEL, Some("metro")),
               Child(TAG_DEFINITION, Some("A length unit.")),
               Child(TAG_DEFINITION, None)>>),
     Element(KIND_CLASS, URI_METRE,
             <<Child(TAG_LABEL, Some("meter")),
               Child(TAG_DEFINITION, Some("The SI unit of length."))>>),
     Element(KIND_CLASS, URI_PATO,
             <<Child(TAG_LABEL, Some("quality")),
               Child(TAG_EXACT_SYN, Some("m"))>>),
     Element(KIND_DESCRIPTION, URI_FARAD,
             <<Child(TAG_LABEL, Some("farad")),
               ChildResource(TAG_SUBCLASS_OF, URI_METRE),
               ChildResource(TAG_SUBCLASS_OF, URI_PATO)>>),
     Element(KIND_CLASS, URI_FARAD,
             <<Child(TAG_NARROW_SYN, Some("F")),
               Child(TAG_EXACT_SYN, None),
               Child(TAG_DEPRECATED, Some("false"))>>),
     Element(KIND_CLASS, URI_FARAD \o "\n",
             <<Child(TAG_LABEL, Some("farad"))>>),
     Element(KIND_DESCRIPTION, "",
             <<Child(TAG_LABEL, Some("metre")),
               Child(TAG_DEPRECATED, Some("true"))>>)}

\* root = tree.getroot(); entries = {}
InitExtract ==
    /\ pc = "classes"
    /\ hashseed \in SampleSeeds
    /\ root \in SeqsUpTo(ElementPool, MaxElements)
    /\ cursor = 0
    /\ entries = <<>>
    /\ uo_entries = <<>>
    /\ dataset = <<>>
    /\ name_map = EmptyDict
    /\ symbol_map = EmptyDict
    /\ results = <<>>
    /\ matched_count = 0
    /\ method_counts = EmptyDict
    /\ runs = <<>>
    /\ call = None
    /\ ret = None
    /\ CombineIdle

\* One iteration of "for cls_elem in root.findall(owl:Class)".
ExtractClass ==
    /\ pc = "classes"
    /\ cursor < Len(FindAll(root, KIND_CLASS))
    /\ entries' = StoreEntry(entries, FindAll(root, KIND_CLASS)[cursor + 1], hashseed)
    /\ cursor' = cursor + 1
    /\ UNCHANGED <<combineVars, callVars, pc, hashseed, root, runs, matchVars>>

\* The first loop is exhausted; the second starts.
EndClasses ==
    /\ pc = "classes"
    /\ cursor = Len(FindAll(root, KIND_CLASS))
    /\ pc' = "descriptions"
    /\ cursor' = 0
    /\ UNCHANGED <<combineVars, callVars, hashseed, root, entries, runs, matchVars>>

\* One iteration of "for desc_elem in root.findall(rdf:Description)".
ExtractDescription ==
    /\ pc = "descriptions"
    /\ cursor < Len(FindAll(root, KIND_DESCRIPTION))
    /\ entries' = StoreEntry(entries, FindAll(root, KIND_DESCRIPTION)[cursor + 1],
                             hashseed)
    /\ cursor' = cursor + 1
    /\ UNCHANGED <<combineVars, callVars, pc, hashseed, root, runs, matchVars>>

\* return list(entries.values())
ReturnEntries ==
    /\ pc = "descriptions"
    /\ cursor = Len(FindAll(root, KIND_DESCRIPTION))
    /\ pc' = "parsed"
    /\ uo_entries' = entries
    /\ UNCHANGED <<combineVars, callVars, hashseed, root, cursor, entries, runs, dataset, name_map,
                   symbol_map, results, matched_count, method_counts>>

NextExtract == ExtractClass \/ EndClasses \/ ExtractDescription \/ ReturnEntries

SpecExtract == InitExtract /\ [][NextExtract]_vars

(***************************************************************************)
(* Independent runs of match_dataset on one input: every run is a process  *)
(* of its own, with its own hash salt.                                     *)
(***************************************************************************)

EntryDecametre == UOEntry("0000010", Some("decametre"), <<>>, <<>>)

EntryDekameter == UOEntry("0000011", Some("dekameter"), <<>>, <<>>)

EntryKilogramme ==
    UOEntry("0000012", Some("kilogramme per cubic meter"), <<>>, <<>>)

RunEntityPool ==
    {EntryDecametre, EntryDekameter, EntryKilogramme, EntryDensity, EntryFarad}

RunRecordPool ==
    {Record(Some("decameter"), Some(""), Some(""), Some(""), <<>>),
     Record(Some("span"), Some(""), Some(""), Some(""), <<"decameter">>),
     RecordDensity, RecordFarad}

InitRuns ==
    /\ pc = "runs"
    /\ hashseed = 0
    /\ uo_entries \in DistinctSeqs(RunEntityPool, MaxEntities)
    /\ dataset \in {<<record>> : record \in RunRecordPool}
    /\ runs = <<>>
    /\ call = None
    /\ ret = None
    /\ CombineIdle
    /\ name_map = EmptyDict
    /\ symbol_map = EmptyDict
    /\ results = <<>>
    /\ matched_count = 0
    /\ method_counts = EmptyDict
    /\ root = <<>>
    /\ cursor = 0
    /\ entries = <<>>

\* match_dataset(dataset, uo_entries) in a fresh process.
RunOnce ==
    /\ pc = "runs"
    /\ Len(runs) < NumRuns
    /\ \E seed \in HashSeeds :
         \E b \in {build_uo_lookup(uo_entries)} :
         \E m \in {MatchRecord(dataset[1], uo_entries, b.name_map, b.symbol_map, seed)} :
           runs' = Append(runs, [hashseed |-> seed, raised |-> m.raised,
                                 match_info |-> m.match_info])
    /\ UNCHANGED <<combineVars, callVars, pc, hashseed, extractVars, matchVars>>

NextRuns == RunOnce

SpecRuns == InitRuns /\ [][NextRuns]_vars

(***************************************************************************)
(* Properties of match_dataset (specification Spec).                       *)
(***************************************************************************)

\* What strategy n appends for the record when no earlier strategy has run.
StrategyAlone(n, rec) ==
    ApplyStrategy(n, StartRecord(name_map, symbol_map), rec, uo_entries, hashseed)

\* The strategies that produce a non-empty candidate set for the record.
Succeeding(rec) ==
    {n \in 1..NumStrategies : StrategyAlone(n, rec).all_matches # <<>>}

Lowest(S) == CHOOSE n \in S : \A m \in S : n <= m

\* The entities of uo_entries with the uri a result names.
ChosenEntities(result) ==
    {uo_entries[e] : e \in {x \in 1..Len(uo_entries) :
                              Some(uo_entries[x].uri) = result.match_uo_uri}}

\* The entities a bucket of the name index holds.
Indexed(key) ==
    IF DictContains(name_map, key)
    THEN {uo_entries[name_map[key][k][1]] : k \in 1..Len(name_map[key])}
    ELSE {}

\* C1: every result is the result of the lowest-numbered strategy that
\* produces candidates for its record: the method and the chosen entity are
\* that strategy's, the recorded candidates are exactly that strategy's and no
\* later strategy adds any; a record no strategy succeeds on is unmatched.  So
\* a record on which both the unit-name and the symbol strategy succeed gets
\* the unit-name result.
C1_StrategyOrder ==
    \A i \in 1..Len(results) :
       LET rec == dataset[i]
           winners == Succeeding(rec)
       IN  IF winners = {}
           THEN /\ ~results[i].matched
                /\ results[i].match_method = None
                /\ results[i].all_matches = <<>>
           ELSE LET won == StrategyAlone(Lowest(winners), rec) IN
                /\ results[i].matched
                /\ results[i].match_method = Some(won.best[1][1])
                /\ results[i].match_uo_uri = Some(uo_entries[won.best[1][2]].uri)
                /\ results[i].all_matches = won.all_matches

\* C1 witness: one record on which both strategy 1 and strategy 2 succeed has
\* the unit-name result, and another was won by strategy 4 although strategy 9
\* succeeds on it too.
C1_Witness ==
    /\ \E i \in 1..Len(results) :
          /\ {1, 2} \subseteq Succeeding(dataset[i])
          /\ results[i].match_method = Some("unit_name_to_label")
    /\ \E i \in 1..Len(results) :
          /\ Succeeding(dataset[i]) = {4, 9}
          /\ results[i].match_method = Some("alternate_unit_to_uo")

\* C3: with the farad entity and the fahrenheit entity both present, in either
\* order, the record farad/F resolves to the farad entity and the record
\* fahrenheit/F to the fahrenheit entity.
C3_CollisionRejection ==
    {EntryFarad, EntryFahrenheit} \subseteq Range(uo_entries) =>
      \A i \in 1..Len(results) :
         /\ (dataset[i].unit = Some("farad") /\ dataset[i].symbol = Some("F"))
               => results[i].match_uo_uri = Some(EntryFarad.uri)
         /\ (dataset[i].unit = Some("fahrenheit") /\ dataset[i].symbol = Some("F"))
               => results[i].match_uo_uri = Some(EntryFahrenheit.uri)

\* C3 witness: the fahrenheit entity comes first and both records have been
\* resolved.
C3_Witness ==
    /\ uo_entries = <<EntryFahrenheit, EntryFarad>>
    /\ Len(results) = 2
    /\ dataset[1].unit = Some("farad") /\ dataset[1].symbol = Some("F")
    /\ results[1].match_uo_uri = Some(EntryFarad.uri)
    /\ dataset[2].unit = Some("fahrenheit") /\ dataset[2].symbol = Some("F")
    /\ results[2].match_uo_uri = Some(EntryFahrenheit.uri)

\* C4: the entity a result names never has the normalized label "unit",
\* "base unit" or "prefix".
C4_CategoryExclusion ==
    \A i \in 1..Len(results) :
       \A entity \in ChosenEntities(results[i]) :
          normalize_name(entity.label) \notin {"unit", "base unit", "prefix"}

\* C4 witness: a category entity is among the entities, the record's symbol
\* and one of its alternates are synonyms of that entity, and the record has a
\* result.
C4_Witness ==
    \E i \in 1..Len(results) :
       /\ EntryCategory \in Range(uo_entries)
       /\ dataset[i].symbol = Some("U")
       /\ "farad" \in Range(dataset[i].alternate_unit)
       /\ ~results[i].matched

\* C5: when the name index has the key "metre" and not the key "meter", a
\* record with unit "meter" on which the symbol, plural, alternate and
\* canonical strategies find nothing is matched by the spelling-variant
\* strategy to an entity indexed under "metre".
C5_SpellingEquivalence ==
    (/\ pc # "build"
     /\ DictContains(name_map, "metre")
     /\ ~DictContains(name_map, "meter")) =>
      \A i \in 1..Len(results) :
         (/\ dataset[i].unit = Some("meter")
          /\ Succeeding(dataset[i]) \cap 2..5 = {}) =>
            /\ results[i].match_method = Some("spelling_variant")
            /\ ChosenEntities(results[i]) # {}
            /\ ChosenEntities(results[i]) \subseteq Indexed("metre")

\* C5 witness: such a record has been matched to the metre entity.
C5_Witness ==
    /\ pc # "build"
    /\ DictContains(name_map, "metre")
    /\ ~DictContains(name_map, "meter")
    /\ \E i \in 1..Len(results) :
          /\ dataset[i].unit = Some("meter")
          /\ Succeeding(dataset[i]) \cap 2..5 = {}
          /\ results[i].match_uo_uri = Some(EntryMetre.uri)

\* C6 as claimed: when "kilogram per cubic metre" is the only key of the name
\* index, a record with unit "kilogram per cubic meter" is matched to that
\* entity and the winning method is per_variant (strategy 7).
C6_PerVariantWins ==
    (pc # "build" /\ DOMAIN name_map = {"kilogram per cubic metre"}) =>
      \A i \in 1..Len(results) :
         dataset[i].unit = Some("kilogram per cubic meter") =>
            /\ ChosenEntities(results[i]) # {}
            /\ ChosenEntities(results[i]) \subseteq Indexed("kilogram per cubic metre")
            /\ results[i].match_method = Some("per_variant")

\* C6 as amended: such a record is matched to that entity, never by
\* per_variant: by spelling_variant (strategy 6) when the plural, alternate
\* and canonical strategies find nothing, by the first of those otherwise.
C6_SpellingVariantWins ==
    (pc # "build" /\ DOMAIN name_map = {"kilogram per cubic metre"}) =>
      \A i \in 1..Len(results) :
         dataset[i].unit = Some("kilogram per cubic meter") =>
            /\ ChosenEntities(results[i]) # {}
            /\ ChosenEntities(results[i]) \subseteq Indexed("kilogram per cubic metre")
            /\ results[i].match_method # Some("per_variant")
            /\ Succeeding(dataset[i]) \cap 1..5 = {}
                  => results[i].match_method = Some("spelling_variant")
            /\ Succeeding(dataset[i]) \cap 1..5 # {}
                  => results[i].match_method \in
                        {Some("plural_to_uo"), Some("alternate_unit_to_uo"),
                         Some("canonical_unit_to_uo")}

\* C6 witness: the index has that one key and the record has been matched by
\* spelling_variant.
C6_Witness ==
    /\ pc # "build"
    /\ DOMAIN name_map = {"kilogram per cubic metre"}
    /\ \E i \in 1..Len(results) :
          /\ dataset[i].unit = Some("kilogram per cubic meter")
          /\ results[i].match_method = Some("spelling_variant")
          /\ results[i].match_uo_uri = Some(EntryDensity.uri)

\* C10: once built, the two indices stay what build_uo_lookup returned,
\* whatever records are processed, and every result is the one its record
\* gets on the freshly built indices.
C10_MatchingIsPure ==
    pc # "build" =>
      LET built == build_uo_lookup(uo_entries) IN
      /\ name_map = built.name_map
      /\ symbol_map = built.symbol_map
      /\ \A i \in 1..Len(results) :
            results[i] = MatchRecord(dataset[i], uo_entries, built.name_map,
                                     built.symbol_map, hashseed).match_info

\* C10 witness: two records have been processed, the first without any hit
\* (all its probes missed), the second with one.
C10_Witness ==
    /\ pc = "done"
    /\ Len(results) = 2
    /\ name_map # EmptyDict
    /\ ~results[1].matched
    /\ results[2].matched

(***************************************************************************)
(* Properties of independent runs (specification SpecRuns).                *)
(***************************************************************************)

\* C2: all the runs made on the same entities and the same record end the
\* same way and give the same match_info: the same chosen entity, the same
\* method and the same candidates in the same order.
C2_Determinism ==
    \A i, j \in 1..Len(runs) :
       /\ runs[i].raised = runs[j].raised
       /\ runs[i].match_info = runs[j].match_info

(***************************************************************************)
(* Properties of parse_uo_owl (specification SpecExtract).                 *)
(***************************************************************************)

\* The elements the two loops have taken so far, in processing order.
Processed ==
    CASE pc = "classes" -> SubSeq(FindAll(root, KIND_CLASS), 1, cursor)
      [] pc = "descriptions" ->
            FindAll(root, KIND_CLASS)
            \o SubSeq(FindAll(root, KIND_DESCRIPTION), 1, cursor)
      [] OTHER -> FindAll(root, KIND_CLASS) \o FindAll(root, KIND_DESCRIPTION)

\* The element the next iteration takes.
Current ==
    IF pc = "classes" THEN FindAll(root, KIND_CLASS)[cursor + 1]
    ELSE FindAll(root, KIND_DESCRIPTION)[cursor + 1]

\* Two entries that state the same declaration: the same label, definition
\* and flag, and the same synonyms and parents as sets.
SameDeclaration(a, b) ==
    /\ a.uri = b.uri
    /\ a.label = b.label
    /\ a.definition = b.definition
    /\ a.deprecated = b.deprecated
    /\ Range(a.exact_synonyms) = Range(b.exact_synonyms)
    /\ Range(a.related_synonyms) = Range(b.related_synonyms)
    /\ Range(a.narrow_synonyms) = Range(b.narrow_synonyms)
    /\ Range(a.parent_classes) = Range(b.parent_classes)

\* C7: an iteration whose element declares exactly what the stored entry of
\* its uri already states leaves that entry's label, definition, deprecated
\* flag, three synonym sets and parent set as they were.
C7_MergeIdempotence ==
    [][ (pc \in {"classes", "descriptions"} /\ cursor' = cursor + 1) =>
          \A i \in 1..Len(entries) :
             (/\ extract_uo_entry(Current) # None
              /\ SameDeclaration(extract_uo_entry(Current)[1], entries[i]))
                => /\ Len(entries') = Len(entries)
                   /\ SameDeclaration(entries'[i], entries[i]) ]_vars

\* C7 witness: the same element, with synonyms, was taken twice in a row and
\* one entry is stored for it.
C7_Witness ==
    /\ Len(Processed) = 2
    /\ Processed[1] = Processed[2]
    /\ Len(entries) = 1
    /\ entries[1].exact_synonyms # <<>>
    /\ entries[1].label # None

\* The non-empty stripped texts of the children of an element with a tag.
TagValues(element, tag) ==
    LET tagged == SelectSeq(element.children, LAMBDA child : child.tag = tag)
    IN  SelectSeq([k \in 1..Len(tagged) |-> ChildText(tagged[k])],
                  LAMBDA text : text # "")

RECURSIVE ValuesEncountered(_, _)
\* The non-empty values of a tag in the order the declarations give them.
ValuesEncountered(declarations, tag) ==
    IF declarations = <<>> THEN <<>>
    ELSE TagValues(Head(declarations), tag)
         \o ValuesEncountered(Tail(declarations), tag)

\* The first non-empty value encountered, if there is one.
FirstEncountered(value, declarations, tag) ==
    IF ValuesEncountered(declarations, tag) = <<>> THEN ~Truthy(value)
    ELSE value = Some(ValuesEncountered(declarations, tag)[1])

\* C8: every stored entry has as synonym sets the unions of the sets its
\* declarations give, as label and as definition the first non-empty value
\* encountered in processing order, and is deprecated exactly when one of its
\* declarations says so.
C8_MergeSemantics ==
    \A i \in 1..Len(entries) :
       LET entry == entries[i]
           declarations == SelectSeq(Processed, LAMBDA el : el.about = entry.uri)
       IN  /\ Range(entry.exact_synonyms)
                = Range(ValuesEncountered(declarations, TAG_EXACT_SYN))
           /\ Range(entry.related_synonyms)
                = Range(ValuesEncountered(declarations, TAG_RELATED_SYN))
           /\ Range(entry.narrow_synonyms)
                = Range(ValuesEncountered(declarations, TAG_NARROW_SYN))
           /\ FirstEncountered(entry.label, declarations, TAG_LABEL)
           /\ FirstEncountered(entry.definition, declarations, TAG_DEFINITION)
           /\ entry.deprecated
                <=> \E text \in Range(ValuesEncountered(declarations, TAG_DEPRECATED)) :
                       Lower(text) = "true"

\* The canonical UO identifier: the OBO prefix, "UO_" and one or more digits,
\* and nothing after them.
CanonicalShape(uri) ==
    \E k \in 1..(Len(uri) - 1) :
       /\ SubSeq(uri, 1, k) = "http://purl.obolibrary.org/obo/UO_"
       /\ \A j \in (k + 1)..Len(uri) : SubSeq(uri, j, j) \in DigitSet

RECURSIVE StoreAll(_, _, _)
\* The entries after the given elements have been taken, from ents on.
StoreAll(ents, elements, seed) ==
    IF elements = <<>> THEN ents
    ELSE StoreAll(StoreEntry(ents, Head(elements), seed), Tail(elements), seed)

\* C9: the stored entries are one per distinct identifier of canonical shape
\* among the elements taken, and they are what taking those elements alone
\* gives: an element with another identifier adds no entry and changes none,
\* and the run never raises.
C9_OneEntityPerValidIdentifier ==
    LET valid == SelectSeq(Processed, LAMBDA el : CanonicalShape(el.about)) IN
    /\ \A i, j \in 1..Len(entries) : i # j => entries[i].uri # entries[j].uri
    /\ {entries[i].uri : i \in 1..Len(entries)} = {valid[i].about : i \in 1..Len(valid)}
    /\ entries = StoreAll(<<>>, valid, hashseed)
    /\ pc \in {"classes", "descriptions", "parsed"}

(***************************************************************************)
(* Further properties of match_dataset (specification Spec).               *)
(***************************************************************************)

\* C11: match_dataset never raises, whatever fields of a record are missing,
\* null or empty, and so also for a record with a null unit whose symbol is a
\* key of the symbol index.
C11_NeverRaises ==
    pc # "raised"

RECURSIVE SumOver(_, _)
\* The sum of the values of a Counter over the given keys.
SumOver(counter, keys) ==
    IF keys = {} THEN 0
    ELSE LET key == CHOOSE k \in keys : TRUE
         IN  counter[key] + SumOver(counter, keys \ {key})

\* C12: the results are one per record taken, in input order; matched_count
\* is the number of results with matched true, every method count is the
\* number of results with that method, and the method counts sum to
\* matched_count; the returned list has one result for every record.
C12_OneResultPerRecord ==
    /\ Len(results) <= Len(dataset)
    /\ pc = "done" => Len(results) = Len(dataset)
    /\ \A i \in 1..Len(results) :
          /\ results[i].unit = dataset[i].unit
          /\ results[i].symbol = dataset[i].symbol
          /\ results[i].matched <=> results[i].match_method # None
    /\ matched_count = Cardinality({i \in 1..Len(results) : results[i].matched})
    /\ \A method \in DOMAIN method_counts :
          method_counts[method]
            = Cardinality({i \in 1..Len(results) :
                             results[i].match_method = Some(method)})
    /\ SumOver(method_counts, DOMAIN method_counts) = matched_count

\* C12 witness: the call returned for two records matched by the same
\* method.
C12_Witness ==
    /\ pc = "done"
    /\ Len(results) = 2
    /\ matched_count = 2
    /\ \E method \in DOMAIN method_counts : method_counts[method] = 2

\* The characters of a uri, in code point order.
UriCharOrder ==
    "\n./0123456789:ABCDEFGHIJKLMNOPQRSTUVWXYZ_abcdefghijklmnopqrstuvwxyz"

CodeRank(c) == CHOOSE k \in 1..Len(UriCharOrder) : Chr(UriCharOrder, k) = c

RECURSIVE UriLeq(_, _)
\* a <= b as Python compares two str.
UriLeq(a, b) ==
    IF a = "" THEN TRUE
    ELSE IF b = "" THEN FALSE
    ELSE IF Chr(a, 1) = Chr(b, 1) THEN UriLeq(Rest(a), Rest(b))
    ELSE CodeRank(Chr(a, 1)) < CodeRank(Chr(b, 1))

\* C13: in every bucket of the name index and of the symbol index the entries
\* are in ascending order of the uri of their entities, whatever the order of
\* the entities passed to build_uo_lookup.
C13_BucketsSortedByUri ==
    pc # "build" =>
      \A index \in {name_map, symbol_map} :
         \A key \in DOMAIN index :
            \A i, j \in 1..Len(index[key]) :
               i < j => UriLeq(uo_entries[index[key][i][1]].uri,
                               uo_entries[index[key][j][1]].uri)

(***************************************************************************)
(* main(): parse_uo_owl and then the build_uo_lookup that match_dataset     *)
(* starts with, on the entries parse_uo_owl returned.                      *)
(***************************************************************************)

URI_KILO == UO_URI_PREFIX \o "0000300"

URI_KIBI == UO_URI_PREFIX \o "0000301"

IndexElementPool ==
    {Element(KIND_CLASS, URI_METRE,
             <<Child(TAG_LABEL, Some("metre")),
               Child(TAG_EXACT_SYN, Some("mtr")),
               Child(TAG_RELATED_SYN, Some("metres"))>>),
     Element(KIND_DESCRIPTION, URI_METRE,
             <<Child(TAG_DEPRECATED, Some("true"))>>),
     Element(KIND_CLASS, URI_KILO,
             <<Child(TAG_LABEL, Some("Kilo_")),
               Child(TAG_EXACT_SYN, Some("kilo-")),
               Child(TAG_NARROW_SYN, Some("K"))>>),
     Element(KIND_CLASS, URI_KILO,
             <<Child(TAG_LABEL, Some(" Kilo")),
               Child(TAG_EXACT_SYN, Some("kilo-")),
               Child(TAG_NARROW_SYN, Some("K"))>>),
     Element(KIND_CLASS, URI_KIBI,
             <<Child(TAG_LABEL, Some("kibi")),
               Child(TAG_EXACT_SYN, Some("Ki"))>>),
     Element(KIND_DESCRIPTION, URI_FARAD,
             <<Child(TAG_LABEL, Some("farad")),
               Child(TAG_EXACT_SYN, Some("F")),
               Child(TAG_DEPRECATED, Some("true"))>>),
     Element(KIND_CLASS, URI_FARAD,
             <<Child(TAG_LABEL, Some("farad")),
               Child(TAG_EXACT_SYN, Some("F"))>>)}

InitIndex ==
    /\ pc = "classes"
    /\ hashseed \in SampleSeeds
    /\ root \in SeqsUpTo(IndexElementPool, MaxElements)
    /\ cursor = 0
    /\ entries = <<>>
    /\ uo_entries = <<>>
    /\ dataset = <<>>
    /\ name_map = EmptyDict
    /\ symbol_map = EmptyDict
    /\ results = <<>>
    /\ matched_count = 0
    /\ method_counts = EmptyDict
    /\ runs = <<>>
    /\ call = None
    /\ ret = None
    /\ CombineIdle

\* name_map, symbol_map = build_uo_lookup(uo_entries), on what parse_uo_owl
\* returned.
IndexParsed ==
    /\ pc = "parsed"
    /\ name_map' = build_uo_lookup(uo_entries).name_map
    /\ symbol_map' = build_uo_lookup(uo_entries).symbol_map
    /\ pc' = "indexed"
    /\ UNCHANGED <<combineVars, callVars, hashseed, uo_entries, dataset, results, matched_count,
                   method_counts, runs, extractVars>>

NextIndex == NextExtract \/ IndexParsed

SpecIndex == InitIndex /\ [][NextIndex]_vars

\* The SI prefix words.
SIPrefixWords ==
    {"yotta", "zetta", "exa", "peta", "tera", "giga", "mega", "kilo", "hecto",
     "deca", "deka", "deci", "centi", "milli", "micro", "nano", "pico", "femto",
     "atto", "zepto", "yocto"}

\* The binary prefix words.
BinaryPrefixWords ==
    {"kibi", "mebi", "gibi", "tebi", "pebi", "exbi", "zebi", "yobi"}

\* The entities that have an entry in some bucket of the two indices.
IndexedEntities ==
    LET held(index) ==
            UNION {{uo_entries[index[key][k][1]] : k \in 1..Len(index[key])} :
                     key \in DOMAIN index}
    IN  held(name_map) \cup held(symbol_map)

\* C14 as claimed: no bucket of the name index or of the symbol index holds a
\* deprecated entity or an entity whose normalized label is an SI or a binary
\* prefix word.
C14_PrefixesAndDeprecatedNeverIndexed ==
    pc = "indexed" =>
      \A entity \in IndexedEntities :
         /\ ~entity.deprecated
         /\ normalize_name(entity.label) \notin SIPrefixWords \cup BinaryPrefixWords

\* C14 as amended: no bucket of either index holds a deprecated entity,
\* however the flag was set, or an entity whose normalized label is an SI
\* prefix word.
C14_SIPrefixesAndDeprecatedNeverIndexed ==
    pc = "indexed" =>
      \A entity \in IndexedEntities :
         /\ ~entity.deprecated
         /\ normalize_name(entity.label) \notin SIPrefixWords

\* C14 witness: the index was built from an entity that a later declaration
\* deprecated and a prefix entity with synonyms, and both indices are empty.
C14_Witness ==
    /\ pc = "indexed"
    /\ Len(root) = 3
    /\ root[1].about = URI_METRE /\ extract_uo_entry(root[1]) # None
    /\ ~extract_uo_entry(root[1])[1].deprecated
    /\ \E i \in 1..Len(uo_entries) :
          uo_entries[i].uri = URI_METRE /\ uo_entries[i].deprecated
    /\ \E i \in 1..Len(uo_entries) :
          /\ normalize_name(uo_entries[i].label) = "kilo"
          /\ uo_entries[i].exact_synonyms # <<>>
    /\ name_map = EmptyDict
    /\ symbol_map = EmptyDict

(***************************************************************************)
(* Tie-break and plausibility in match_dataset (specification Spec).       *)
(***************************************************************************)

\* The key of the name index whose bucket gave the result: the normalized
\* field of the record the winning strategy probed, or the variant it found.
WinningKey(result, rec) ==
    LET method == result.match_method[1] IN
    IF method = "plural_to_uo" THEN normalize_name(rec.plural)
    ELSE IF method = "alternate_unit_to_uo"
         THEN normalize_name(Some(result.all_matches[1].alternate_unit))
    ELSE IF method = "canonical_unit_to_uo" THEN normalize_name(rec.canonical_unit)
    ELSE IF method \in {"spelling_variant", "per_variant", "shape_variant",
                        "alternate_spelling_variant"}
         THEN result.all_matches[1].variant
    ELSE normalize_name(rec.unit)

\* The pair of a bucket the tie-break rule selects: the first of label
\* provenance when there is one, the first pair otherwise.
Preferred(pairs) ==
    LET label_pairs == SelectSeq(pairs, LAMBDA p : p[2] = "label") IN
    IF label_pairs # <<>> THEN label_pairs[1] ELSE pairs[1]

\* C15: whenever a strategy that probes the name index wins, the chosen entity
\* is the first label-provenance candidate of the winning bucket when the
\* bucket has one, and the first candidate of the bucket otherwise.
C15_LabelProvenanceFirst ==
    \A i \in 1..Len(results) :
       (results[i].matched /\ results[i].match_method # Some("symbol_to_synonym")) =>
          LET key == WinningKey(results[i], dataset[i]) IN
          /\ DictContains(name_map, key)
          /\ results[i].match_uo_uri
               = Some(uo_entries[Preferred(name_map[key])[1]].uri)

\* The entities of uo_entries with the given uri.
EntitiesAt(uri) ==
    {uo_entries[e] : e \in {x \in 1..Len(uo_entries) : uo_entries[x].uri = uri}}

\* The record's symbol is a key of the symbol index, its unit name is not a
\* key of the name index, and no entity of the symbol's bucket is plausible
\* for the unit name.
NoPlausibleSymbol(rec) ==
    /\ rec.unit # None
    /\ ~DictContains(name_map, normalize_name(rec.unit))
    /\ Truthy(rec.symbol)
    /\ DictContains(symbol_map, normalize_symbol_for_match(rec.symbol))
    /\ \A p \in Range(symbol_map[normalize_symbol_for_match(rec.symbol)]) :
          ~symbol_match_is_plausible(rec.unit[1], uo_entries[p[1]])

\* C16: when the symbol strategy wins, the chosen entity and every recorded
\* candidate are plausible for the record's unit name; when the symbol is in
\* the symbol index without a plausible candidate, no symbol candidate is
\* recorded and the result is the one the plural strategy gives when it finds
\* something.
C16_SymbolWinsOnlyPlausible ==
    \A i \in 1..Len(results) :
       LET rec == dataset[i] IN
       /\ results[i].match_method = Some("symbol_to_synonym") =>
             /\ rec.unit # None
             /\ \A entity \in ChosenEntities(results[i]) :
                   symbol_match_is_plausible(rec.unit[1], entity)
             /\ \A k \in 1..Len(results[i].all_matches) :
                   \A entity \in EntitiesAt(results[i].all_matches[k].uo_uri) :
                      symbol_match_is_plausible(rec.unit[1], entity)
       /\ NoPlausibleSymbol(rec) =>
             /\ results[i].match_method # Some("symbol_to_synonym")
             /\ \A k \in 1..Len(results[i].all_matches) :
                   ~StartsWith(results[i].all_matches[k].method, "symbol_to_")
             /\ StrategyAlone(3, rec).all_matches # <<>> =>
                   /\ results[i].match_method = Some("plural_to_uo")
                   /\ results[i].all_matches = StrategyAlone(3, rec).all_matches

\* C16 witness: one record was won by the symbol strategy with one of the two
\* entities of its symbol's bucket, and another, whose symbol has no plausible
\* candidate, by the plural strategy.
C16_Witness ==
    /\ pc # "build"
    /\ DictContains(symbol_map, "R") /\ Len(symbol_map["R"]) = 2
    /\ \E i \in 1..Len(results) :
          /\ results[i].match_method = Some("symbol_to_synonym")
          /\ Len(results[i].all_matches) = 1
    /\ \E i \in 1..Len(results) :
          /\ NoPlausibleSymbol(dataset[i])
          /\ results[i].match_method = Some("plural_to_uo")

(***************************************************************************)
(* Calls of the helper functions on their own: normalize_name,             *)
(* is_symbol_like, generate_spelling_variants, symbol_match_is_plausible.  *)
(***************************************************************************)

MaxPieces == 3

MaxCalls == 2

RECURSIVE Concat(_)
\* "".join(pieces)
Concat(pieces) ==
    IF pieces = <<>> THEN "" ELSE Head(pieces) \o Concat(Tail(pieces))

\* The strings made of up to MaxPieces of the given pieces.
Texts(pieces) == {Concat(q) : q \in SeqsUpTo(pieces, MaxPieces)}

NamePieces == {"a", "B", " ", "\t", "_", "*", "·"}

SymbolPieces == {"m", "K", "2", "/", " ", "abcde", "abcdefgh"}

VariantPieces == {"program", "programme", "gram", "gramme", "kilo", "meter", " "}

PlausibleNames == {"ohm", "Ohms", "kilohm", "volt", "farad second", "", "ab"}

PlausibleEntities ==
    {[UOEntry("0000001", label, exact, <<>>) EXCEPT
         !.narrow_synonyms = narrow, !.definition = definition] :
       label \in {None, Some("farad"), Some("Ohm"), Some("kilo ohm")},
       exact \in {<<>>, <<"volts">>},
       narrow \in {<<>>, <<"ohm">>},
       definition \in {None, Some("One ohm second."), Some("A volt per ampere.")}}

\* A call: the function, its text argument (None or a string) and, for
\* symbol_match_is_plausible, its uo_entry.
Call(fn, text, uo_entry) ==
    [fn |-> fn, text |-> text, uo_entry |-> uo_entry, depth |-> 1]

CallInputs ==
    {Call("normalize_name", text, None) :
        text \in {None} \cup {Some(t) : t \in Texts(NamePieces)}}
    \cup {Call("is_symbol_like", Some(t), None) : t \in Texts(SymbolPieces)}
    \cup {Call("generate_spelling_variants", Some(t), None) : t \in Texts(VariantPieces)}
    \cup {Call("symbol_match_is_plausible", Some(name), Some(entity)) :
            name \in PlausibleNames, entity \in PlausibleEntities}

InitCalls ==
    /\ pc = "call"
    /\ call \in CallInputs
    /\ ret = None
    /\ hashseed = 0
    /\ root = <<>>
    /\ cursor = 0
    /\ entries = <<>>
    /\ uo_entries = <<>>
    /\ dataset = <<>>
    /\ name_map = EmptyDict
    /\ symbol_map = EmptyDict
    /\ results = <<>>
    /\ matched_count = 0
    /\ method_counts = EmptyDict
    /\ runs = <<>>
    /\ CombineIdle

\* The call returns value.
Return(value) ==
    /\ ret' = Some(value)
    /\ pc' = "returned"
    /\ UNCHANGED <<combineVars, call, hashseed, runs, extractVars, matchVars>>

CallNormalizeName ==
    /\ pc = "call"
    /\ call.fn = "normalize_name"
    /\ Return(normalize_name(call.text))

\* normalize_name is called on what it returned.
CallNormalizeNameAgain ==
    /\ pc = "returned"
    /\ call.fn = "normalize_name"
    /\ call.depth < MaxCalls
    /\ call' = [call EXCEPT !.text = ret, !.depth = @ + 1]
    /\ ret' = None
    /\ pc' = "call"
    /\ UNCHANGED <<combineVars, hashseed, runs, extractVars, matchVars>>

CallIsSymbolLike ==
    /\ pc = "call"
    /\ call.fn = "is_symbol_like"
    /\ Return(is_symbol_like(call.text[1]))

CallGenerateSpellingVariants ==
    /\ pc = "call"
    /\ call.fn = "generate_spelling_variants"
    /\ Return(generate_spelling_variants(call.text[1]))

CallSymbolMatchIsPlausible ==
    /\ pc = "call"
    /\ call.fn = "symbol_match_is_plausible"
    /\ Return(symbol_match_is_plausible(call.text[1], call.uo_entry[1]))

NextCalls ==
    \/ CallNormalizeName
    \/ CallNormalizeNameAgain
    \/ CallIsSymbolLike
    \/ CallGenerateSpellingVariants
    \/ CallSymbolMatchIsPlausible

SpecCalls == InitCalls /\ [][NextCalls]_vars

(***************************************************************************)
(* Properties of the helper functions (specification SpecCalls).           *)
(***************************************************************************)

\* The call of fn has returned.
Returned(fn) == pc = "returned" /\ call.fn = fn

\* The tokens of a text: its runs of three or more lowercase letters, after
\* lowercasing.
Tokens(text) == LowerWords(Lower(text), 3)

\* The conditions (a) to (d) under which the filter is said to accept.
ClaimedAccept(name, candidate) ==
    LET synonyms == candidate.exact_synonyms \o candidate.related_synonyms
                      \o candidate.narrow_synonyms
        name_tokens == Tokens(name)
        label_tokens == Tokens(OrEmpty(candidate.label))
                          \cup UNION {Tokens(synonyms[k]) : k \in 1..Len(synonyms)}
        definition == Lower(OrEmpty(candidate.definition))
    IN  \/ name_tokens \cap (label_tokens \cup Tokens(definition)) # {}
        \/ Contains(Lower(name), Lower(OrEmpty(candidate.label)))
        \/ Contains(Lower(OrEmpty(candidate.label)), Lower(name))
        \/ \E a \in name_tokens : \E b \in label_tokens : Contains(a, b) \/ Contains(b, a)
        \/ \E a \in name_tokens : Len(a) >= 4 /\ Contains(definition, a)

\* C17: symbol_match_is_plausible returns true exactly when the dataset name
\* and the candidate share a token of three or more letters with the label,
\* the synonyms or the definition, or one of name and label is a substring of
\* the other, or a token of one side is inside a token of the other, or a
\* token of four or more letters of the name occurs in the definition.
C17_AcceptsExactlyOnFourConditions ==
    Returned("symbol_match_is_plausible") =>
       (ret[1] <=> ClaimedAccept(call.text[1], call.uo_entry[1]))

\* The characters that are neither letters, digits nor whitespace.
IsSpecial(c) == ~IsLower(c) /\ ~IsUpper(c) /\ ~IsDigit(c) /\ c \notin Whitespace

\* The conditions under which a synonym is said to be eligible for the
\* symbol index, on the synonym as build_uo_lookup strips it.
ClaimedEligible(text) ==
    LET t == Strip(text) IN
    /\ t # ""
    /\ Len(t) <= 15
    /\ ~Contains(t, " ")
    /\ \/ \E c \in CharSet(t) : IsDigit(c) \/ IsUpper(c) \/ IsSpecial(c)
       \/ (Len(t) <= 5 /\ \A c \in CharSet(t) : IsLower(c))

\* C18: is_symbol_like accepts a synonym exactly when it has at most 15
\* characters, no internal space, and either a digit, an uppercase letter or
\* a special character, or at most 5 characters that are all lowercase
\* letters.
C18_SymbolLikeExactly ==
    Returned("is_symbol_like") => (ret[1] <=> ClaimedEligible(call.text[1]))

\* C19: what normalize_name returns is lowercase, neither begins nor ends
\* with whitespace and has no two whitespace characters in a row; and
\* normalize_name called on what it returned returns it unchanged.
C19_NormalizedAndIdempotent ==
    Returned("normalize_name") =>
       LET r == ret[1] IN
       /\ r = Lower(r)
       /\ r # "" => (Chr(r, 1) \notin Whitespace /\ Chr(r, Len(r)) \notin Whitespace)
       /\ \A i \in 1..(Len(r) - 1) :
             ~(Chr(r, i) \in Whitespace /\ Chr(r, i + 1) \in Whitespace)
       /\ call.depth > 1 => ret = call.text

\* The number of places of text where sub occurs.
CountOccurrences(text, sub) ==
    Cardinality({i \in 1..(Len(text) - Len(sub) + 1) :
                   SubSeq(text, i, i + Len(sub) - 1) = sub})

\* C20: for a text that contains "program" or "programme", every variant
\* generate_spelling_variants returns has as many occurrences of "program"
\* and of "programme" as the text: no gram/gramme swap was made inside one.
C20_NoSwapInsideProgram ==
    (Returned("generate_spelling_variants") /\ Contains(call.text[1], "program")) =>
       \A variant \in ret[1] :
          /\ CountOccurrences(variant, "program") = CountOccurrences(call.text[1], "program")
          /\ CountOccurrences(variant, "programme")
               = CountOccurrences(call.text[1], "programme")

(***************************************************************************)
(* The per decomposition in match_dataset (specification Spec).            *)
(***************************************************************************)

\* The places of text where " per " stands with something on both sides.
PerPlaces(text) ==
    {i \in 2..(Len(text) - 5) : SubSeq(text, i, i + 4) = " per "}

\* The recombinations "n per d" of a text split at its first " per ": n is
\* the numerator or one of its spelling variants, d the denominator or one of
\* its spelling variants.  None for a text without " per ".
Recombinations(text) ==
    IF PerPlaces(text) = {} THEN {}
    ELSE LET at == CHOOSE i \in PerPlaces(text) : \A j \in PerPlaces(text) : i <= j
             numerator == SubSeq(text, 1, at - 1)
             denominator == SubSeq(text, at + 5, Len(text))
         IN  {n \o " per " \o d :
                n \in {numerator} \cup generate_spelling_variants(numerator),
                d \in {denominator} \cup generate_spelling_variants(denominator)}

\* C21: when strategies 1 to 6 find nothing for a record and a recombination
\* of its normalized unit name is a key of the name index, the record is
\* matched with method per_variant to an entity of the bucket of such a key;
\* a record is matched by per_variant only in that case, and never when its
\* name has no " per ".
C21_PerDecomposition ==
    \A i \in 1..Len(results) :
       LET rec == dataset[i]
           text == normalize_name(rec.unit)
           keys == {full \in Recombinations(text) : DictContains(name_map, full)}
           earlier == \E n \in 1..6 : StrategyAlone(n, rec).all_matches # <<>>
       IN  /\ (keys # {} /\ ~earlier) =>
                 /\ results[i].match_method = Some("per_variant")
                 /\ \E key \in keys :
                       /\ ChosenEntities(results[i]) \subseteq Indexed(key)
                       /\ ChosenEntities(results[i]) # {}
           /\ results[i].match_method = Some("per_variant") =>
                 (keys # {} /\ ~earlier)
           /\ PerPlaces(text) = {} => results[i].match_method # Some("per_variant")

\* C21 witness: a record whose name needs three swaps, one in the denominator,
\* was matched by per_variant, and another record with " per " in its name by
\* the whole-string spelling variant before strategy 7 ran.
C21_Witness ==
    /\ \E i \in 1..Len(results) :
          /\ dataset[i].unit = Some("decagramme per liter")
          /\ results[i].match_method = Some("per_variant")
          /\ results[i].all_matches[1].variant = "dekagram per litre"
    /\ \E i \in 1..Len(results) :
          /\ PerPlaces(normalize_name(dataset[i].unit)) # {}
          /\ results[i].match_method = Some("spelling_variant")

(***************************************************************************)
(* Order of the declarations in parse_uo_owl (specification SpecExtract).  *)
(***************************************************************************)

\* The documents with the elements of doc in another order.
Reorderings(doc) ==
    {[k \in 1..Len(doc) |-> doc[order[k]]] :
       order \in {f \in [1..Len(doc) -> 1..Len(doc)] :
                    \A a, b \in 1..Len(doc) : a # b => f[a] # f[b]}}

\* What parse_uo_owl returns for a document: the owl:Class elements are
\* taken first, the rdf:Description elements after them.
ParsedEntries(doc, seed) ==
    StoreAll(StoreAll(<<>>, FindAll(doc, KIND_CLASS), seed),
             FindAll(doc, KIND_DESCRIPTION), seed)

\* Two lists of entries that hold the same merged entities.
SameEntities(a, b) ==
    /\ \A i \in 1..Len(a) : \E j \in 1..Len(b) : SameDeclaration(a[i], b[j])
    /\ \A j \in 1..Len(b) : \E i \in 1..Len(a) : SameDeclaration(a[i], b[j])

\* C22: the merged entities parse_uo_owl returns for a document are the ones
\* it returns for the same declarations in any other order: same label,
\* definition, synonym sets, deprecated flag and parent set.
C22_MergeOrderIndependent ==
    pc = "parsed" =>
       \A doc \in Reorderings(root) :
          SameEntities(ParsedEntries(doc, hashseed), uo_entries)

(***************************************************************************)
(* compute_statistics(uo_entries, dataset, match_results, matched_count,   *)
(* method_counts) (specification SpecStats).                               *)
(***************************************************************************)

\* most_common(30): the number of properties the report keeps.
TopProperties == 30

\* A collections.Counter keeps its keys in insertion order: a sequence of
\* <<key, count>>.  counter[key] += 1
CounterAdd(counter, key) ==
    IF \E i \in 1..Len(counter) : counter[i][1] = key
    THEN [i \in 1..Len(counter) |->
            IF counter[i][1] = key THEN <<key, counter[i][2] + 1>> ELSE counter[i]]
    ELSE Append(counter, <<key, 1>>)

\* counter.most_common(n): by count, largest first, ties in insertion order;
\* n = 0 stands for most_common().
most_common(counter, n) ==
    LET rank(i) == Cardinality({j \in 1..Len(counter) :
                        \/ counter[j][2] > counter[i][2]
                        \/ counter[j][2] = counter[i][2] /\ j < i}) + 1
        kept == IF n = 0 \/ Len(counter) < n THEN Len(counter) ELSE n
    IN  [k \in 1..kept |-> counter[CHOOSE i \in 1..Len(counter) : rank(i) = k]]

\* dict(pairs)
AsDict(pairs) ==
    [key \in {pairs[i][1] : i \in 1..Len(pairs)} |->
       pairs[CHOOSE i \in 1..Len(pairs) : pairs[i][1] = key][2]]

\* sum(1 for e in uo_entries if e.get(field) and not e["deprecated"])
CountWith(ents, field) ==
    Cardinality({i \in 1..Len(ents) : ents[i][field] # <<>> /\ ~ents[i].deprecated})

RECURSIVE TotalLen(_, _, _)
\* sum(len(e.get(field, [])) for e in uo_entries[:n] if not e["deprecated"])
TotalLen(ents, field, n) ==
    IF n = 0 THEN 0
    ELSE TotalLen(ents, field, n - 1)
         + (IF ents[n].deprecated THEN 0 ELSE Len(ents[n][field]))

RECURSIVE DatasetLookup(_, _)
\* dataset_lookup after the first n records: (unit, symbol) -> the last
\* record with that key.
DatasetLookup(records, n) ==
    IF n = 0 THEN EmptyDict
    ELSE LET rec == records[n]
             key == <<rec.unit, rec.symbol>>
             before == DatasetLookup(records, n - 1)
         IN  [k \in DOMAIN before \cup {key} |-> IF k = key THEN rec ELSE before[k]]

RECURSIVE Distribution(_, _, _, _, _)
\* The Counter of field over the first n match results whose "matched" is
\* wanted, each read from the record dataset_lookup holds for its key.
Distribution(match_results, lookup, field, wanted, n) ==
    IF n = 0 THEN <<>>
    ELSE LET r == match_results[n]
             key == <<r.unit, r.symbol>>
             before == Distribution(match_results, lookup, field, wanted, n - 1)
         IN  IF key \in DOMAIN lookup /\ r.matched = wanted
             THEN CounterAdd(before, lookup[key][field])
             ELSE before

\* round(100.0 * matched_count / total_dataset, 2), in hundredths of a percent.
match_rate_percent(matched, total) ==
    IF total = 0 THEN 0 ELSE (20000 * matched + total) \div (2 * total)

\* Lines 699-722 and 748-755: the distributions by system and by property.
compute_statistics_distribution(records, match_results) ==
    LET lookup == DatasetLookup(records, Len(records))
        count(field, wanted) ==
            Distribution(match_results, lookup, field, wanted, Len(match_results))
    IN  [system_distribution |->
           [matched_by_system |-> AsDict(most_common(count("system", TRUE), 0)),
            unmatched_by_system |-> AsDict(most_common(count("system", FALSE), 0))],
         property_distribution |->
           [matched_by_property |->
              AsDict(most_common(count("property", TRUE), TopProperties)),
            unmatched_by_property |->
              AsDict(most_common(count("property", FALSE), TopProperties))]]

\* The stats dict compute_statistics returns.
compute_statistics(ents, records, match_results, matched, methods) ==
    LET total_uo == Len(ents)
        deprecated == Cardinality({i \in 1..Len(ents) : ents[i].deprecated})
        active_uo == total_uo - deprecated
        with_label == CountWith(ents, "label")
        matched_uo_uris ==
            {match_results[i].match_uo_uri : i \in
               {j \in 1..Len(match_results) :
                  /\ match_results[j].matched
                  /\ Truthy(match_results[j].match_uo_uri)}}
        distribution == compute_statistics_distribution(records, match_results)
    IN  [uo_extraction |->
           [total_uo_entries |-> total_uo,
            deprecated_entries |-> deprecated,
            active_entries |-> active_uo,
            with_label |-> with_label,
            without_label |-> active_uo - with_label,
            with_definition |-> CountWith(ents, "definition"),
            with_exact_synonyms |-> CountWith(ents, "exact_synonyms"),
            with_related_synonyms |-> CountWith(ents, "related_synonyms"),
            with_narrow_synonyms |-> CountWith(ents, "narrow_synonyms"),
            with_parent_classes |-> CountWith(ents, "parent_classes"),
            total_exact_synonyms |-> TotalLen(ents, "exact_synonyms", Len(ents)),
            total_related_synonyms |-> TotalLen(ents, "related_synonyms", Len(ents)),
            total_narrow_synonyms |-> TotalLen(ents, "narrow_synonyms", Len(ents))],
         matching |->
           [total_dataset_entries |-> Len(records),
            matched_entries |-> matched,
            unmatched_entries |-> Len(records) - matched,
            match_rate_percent |-> match_rate_percent(matched, Len(records)),
            unique_uo_entries_matched |-> Cardinality(matched_uo_uris),
            method_breakdown |-> methods],
         system_distribution |-> distribution.system_distribution,
         property_distribution |-> distribution.property_distribution]

\* A record of another system, and one of another property.
InSystem(record, system) == [record EXCEPT !.system = system]

OfProperty(record, property) == [record EXCEPT !.property = property]

StatsEntityPool == {EntryFarad, EntryMetre}

StatsRecordPool ==
    {RecordFarad, InSystem(RecordFarad, "CGS"), OfProperty(RecordFarad, "capacitance"),
     RecordMeter, RecordRankines}

InitStats ==
    /\ pc = "build"
    /\ hashseed \in SampleSeeds
    /\ uo_entries \in DistinctSeqs(StatsEntityPool, MaxEntities)
    /\ dataset \in SeqsUpTo(StatsRecordPool, MaxRecords)
    /\ name_map = EmptyDict
    /\ symbol_map = EmptyDict
    /\ results = <<>>
    /\ matched_count = 0
    /\ method_counts = EmptyDict
    /\ root = <<>>
    /\ cursor = 0
    /\ entries = <<>>
    /\ runs = <<>>
    /\ call = None
    /\ ret = None
    /\ CombineIdle

\* stats, matched, unmatched = compute_statistics(uo_entries, dataset,
\*     match_results, matched_count, method_counts)
ComputeStatistics ==
    /\ pc = "done"
    /\ stats' = Some(compute_statistics(uo_entries, dataset, results, matched_count,
                                        method_counts))
    /\ pc' = "reported"
    /\ UNCHANGED <<ucumVars, omVars, uo_matches, uo_lookup, enriched, callVars,
                   hashseed, runs, extractVars, matchVars>>

NextStats == BuildLookup \/ MatchNext \/ ReturnResults \/ ComputeStatistics

SpecStats == InitStats /\ [][NextStats]_vars

RECURSIVE match_dataset(_, _, _, _)
\* match_dataset(dataset, uo_entries) after n iterations of its loop.
match_dataset(records, ents, seed, n) ==
    IF n = 0
    THEN [name_map |-> build_uo_lookup(ents).name_map,
          symbol_map |-> build_uo_lookup(ents).symbol_map,
          results |-> <<>>, matched_count |-> 0, method_counts |-> EmptyDict]
    ELSE LET before == match_dataset(records, ents, seed, n - 1)
             m == MatchRecord(records[n], ents, before.name_map, before.symbol_map,
                              seed)
         IN  [name_map |-> m.name_map,
              symbol_map |-> m.symbol_map,
              results |-> Append(before.results, m.match_info),
              matched_count |-> IF m.match_info.matched
                                THEN before.matched_count + 1
                                ELSE before.matched_count,
              method_counts |-> IF m.match_info.matched
                                THEN CounterIncrement(before.method_counts,
                                                      m.match_info.match_method[1])
                                ELSE before.method_counts]

\* The statistics of a whole run on records.
StatisticsOf(records, ents, seed) ==
    LET run == match_dataset(records, ents, seed, Len(records))
    IN  compute_statistics(ents, records, run.results, run.matched_count,
                           run.method_counts)

\* C23: the aggregated statistics (matched count, per-method counts, matched
\* and unmatched counts by system and by property) of a run are those of a run
\* on any permutation of the dataset records, also when two records share
\* (unit, symbol) and differ in system or property.
C23_AggregationOrderIndependent ==
    pc = "reported" =>
        \A permuted \in Reorderings(dataset) :
            StatisticsOf(permuted, uo_entries, hashseed) = stats[1]

(***************************************************************************)
(* parse_ucum_ttl(path) of combine_ontology_mappings.py (specification     *)
(* SpecUcum).                                                              *)
(***************************************************************************)

OM_PREFIX == "http://www.ontology-of-units-of-measure.org/resource/om-2/"

\* line.rstrip("\n")
RECURSIVE RStripNewline(_)
RStripNewline(s) ==
    IF s # "" /\ Chr(s, Len(s)) = "\n"
    THEN RStripNewline(SubSeq(s, 1, Len(s) - 1))
    ELSE s

RECURSIVE RunLength(_, _)
\* The length of the longest prefix of s with no character of stop.
RunLength(s, stop) ==
    IF s = "" \/ Chr(s, 1) \in stop THEN 0 ELSE 1 + RunLength(Rest(s), stop)

\* subject_pattern = ^(om:\S+)\s*$ : group 1 of the match, or None.
subject_pattern_match(line) ==
    LET run == RunLength(line, Whitespace)
    IN  IF /\ StartsWith(line, "om:")
           /\ run > 3
           /\ LStrip(SubSeq(line, run + 1, Len(line))) = ""
        THEN Some(SubSeq(line, 1, run))
        ELSE None

\* notation_pattern = ^\s+skos:notation\s+"([^"]+)"\^\^qudt:UCUMcs\s*; :
\* group 1 of the match, or None.
notation_pattern_match(line) ==
    LET keyword == LStrip(line)
        quoted == SubSeq(keyword, 14, Len(keyword))
        literal == LStrip(quoted)
        code == Rest(literal)
        run == RunLength(code, {"\""})
        datatype == SubSeq(code, run + 1, Len(code))
    IN  IF /\ Len(keyword) < Len(line)
           /\ StartsWith(keyword, "skos:notation")
           /\ Len(literal) < Len(quoted)
           /\ StartsWith(literal, "\"")
           /\ run > 0
           /\ StartsWith(datatype, "\"^^qudt:UCUMcs")
           /\ StartsWith(LStrip(SubSeq(datatype, 15, Len(datatype))), ";")
        THEN Some(SubSeq(code, 1, run))
        ELSE None

\* block_end_pattern = ^\.\s*$
block_end_pattern_match(line) ==
    StartsWith(line, ".") /\ LStrip(Rest(line)) = ""

\* uri_to_ucum[full_uri] = ucum_code
DictSet(dict, key, value) ==
    [k \in DOMAIN dict \cup {key} |-> IF k = key THEN value ELSE dict[k]]

\* Mutant of ReadLineBody: a later notation overwrites the recorded code.
ReadLineBody_Overwrite(raw, current, mapping) ==
    LET line == RStripNewline(raw)
        subject == subject_pattern_match(line)
        notation == notation_pattern_match(line)
    IN  IF subject # None
        THEN [current_local_name |-> Some(SubSeq(subject[1], 4, Len(subject[1]))),
              uri_to_ucum |-> mapping]
        ELSE IF notation # None /\ Truthy(current)
        THEN [current_local_name |-> current,
              uri_to_ucum |-> DictSet(mapping, OM_PREFIX \o current[1], notation[1])]
        ELSE IF block_end_pattern_match(line)
        THEN [current_local_name |-> None, uri_to_ucum |-> mapping]
        ELSE [current_local_name |-> current, uri_to_ucum |-> mapping]

\* The body of "for line in f": the subject and the mapping it leaves.
ReadLineBody(raw, current, mapping) ==
    LET line == RStripNewline(raw)
        subject == subject_pattern_match(line)
        notation == notation_pattern_match(line)
    IN  IF subject # None
        THEN [current_local_name |-> Some(SubSeq(subject[1], 4, Len(subject[1]))),
              uri_to_ucum |-> mapping]
        ELSE IF notation # None /\ Truthy(current)
        THEN [current_local_name |-> current,
              uri_to_ucum |->
                 IF (OM_PREFIX \o current[1]) \in DOMAIN mapping
                 THEN mapping
                 ELSE DictSet(mapping, OM_PREFIX \o current[1], notation[1])]
        ELSE IF block_end_pattern_match(line)
        THEN [current_local_name |-> None, uri_to_ucum |-> mapping]
        ELSE [current_local_name |-> current, uri_to_ucum |-> mapping]

MaxLines == 5

\* Lines of an OM Turtle file.
LinePool ==
    {"om:ampere\n",
     "om:volt \n",
     "  skos:notation \"A\"^^qudt:UCUMcs ;\n",
     "\tskos:notation  \"V\"^^qudt:UCUMcs;\n",
     ".\n",
     "  om:symbol \"A\" ;\n"}

InitUcum ==
    /\ pc = "ucum"
    /\ lines \in SeqsUpTo(LinePool, MaxLines)
    /\ line_no = 0
    /\ current_local_name = None
    /\ uri_to_ucum = EmptyDict
    /\ stats = None
    /\ om_units = <<>>
    /\ om_matches = <<>>
    /\ om_lookup = EmptyDict
    /\ uo_matches = <<>>
    /\ uo_lookup = EmptyDict
    /\ enriched = <<>>
    /\ hashseed = 0
    /\ uo_entries = <<>>
    /\ dataset = <<>>
    /\ name_map = EmptyDict
    /\ symbol_map = EmptyDict
    /\ results = <<>>
    /\ matched_count = 0
    /\ method_counts = EmptyDict
    /\ root = <<>>
    /\ cursor = 0
    /\ entries = <<>>
    /\ runs = <<>>
    /\ call = None
    /\ ret = None

\* One iteration of "for line in f".
ReadLine ==
    /\ pc = "ucum"
    /\ line_no < Len(lines)
    /\ \E after \in {ReadLineBody(lines[line_no + 1], current_local_name,
                                  uri_to_ucum)} :
         /\ current_local_name' = after.current_local_name
         /\ uri_to_ucum' = after.uri_to_ucum
    /\ line_no' = line_no + 1
    /\ UNCHANGED <<pc, lines, omVars, enrichVars, callVars, hashseed, runs,
                   extractVars, matchVars>>

\* The file is exhausted: return uri_to_ucum
ReturnUcum ==
    /\ pc = "ucum"
    /\ line_no = Len(lines)
    /\ pc' = "ucum_done"
    /\ UNCHANGED <<combineVars, callVars, hashseed, runs, extractVars, matchVars>>

NextUcum == ReadLine \/ ReturnUcum

SpecUcum == InitUcum /\ [][NextUcum]_vars

\* The lines read so far that open a block, end a block, carry a notation.
SubjectLines == {i \in 1..line_no : subject_pattern_match(RStripNewline(lines[i])) # None}

TerminatorLines == {i \in 1..line_no : block_end_pattern_match(RStripNewline(lines[i]))}

NotationLines ==
    {i \in 1..line_no : notation_pattern_match(RStripNewline(lines[i])) # None}

\* The subject that is current at line i: the one of the last subject line
\* before i, unless a block terminator came after it.
SubjectAt(i) ==
    LET opened == {j \in SubjectLines : j < i}
        last == CHOOSE j \in opened : \A k \in opened : k <= j
    IN  IF opened = {} \/ \E t \in TerminatorLines : last < t /\ t < i
        THEN None
        ELSE Some(OM_PREFIX \o
                  SubSeq(RStrip(RStripNewline(lines[last])), 4,
                         Len(RStrip(RStripNewline(lines[last])))))

\* The notation lines read so far under subject uri.
NotationsOf(uri) == {i \in NotationLines : SubjectAt(i) = Some(uri)}

\* C24: at every line of the file the mapping holds, for every OM subject
\* with a notation line in one of its blocks, the code of the first such
\* line; a later notation of the subject, in the same or in a later block,
\* does not replace it, and a notation line with no current subject (before
\* any subject, or after a block terminator) adds nothing.
C24_FirstNotationPerSubject ==
    /\ DOMAIN uri_to_ucum =
          {SubjectAt(i)[1] : i \in {j \in NotationLines : SubjectAt(j) # None}}
    /\ \A uri \in DOMAIN uri_to_ucum :
          LET first == CHOOSE i \in NotationsOf(uri) : \A k \in NotationsOf(uri) : i <= k
          IN  uri_to_ucum[uri] = notation_pattern_match(RStripNewline(lines[first]))[1]

\* C24 witness: the file is read; a subject has two notation lines with
\* different codes, and a notation line came after a block terminator with
\* no subject current.
C24_Witness ==
    /\ pc = "ucum_done"
    /\ \E uri \in DOMAIN uri_to_ucum :
          \E i, k \in NotationsOf(uri) :
             /\ i < k
             /\ notation_pattern_match(RStripNewline(lines[i]))
                  # notation_pattern_match(RStripNewline(lines[k]))
    /\ \E i \in NotationLines : \E t \in TerminatorLines : t < i /\ SubjectAt(i) = None

(***************************************************************************)
(* The OM matcher of om_rdf_extract.py and the combiner of                 *)
(* combine_ontology_mappings.py (specification SpecCombine).               *)
(***************************************************************************)

\* normalize(s) of om_rdf_extract.py; s is a string without superscript minus.
normalize(s) ==
    IF s = "" THEN ""
    ELSE Replace(Replace(Replace(Replace(Replace(Strip(Lower(s)),
             "·", " "), "²", "2"), "³", "3"), "µ", "u"), "μ", "u")

\* A unit as serialize_units writes it.
OMUnit(local_name, labels, alt_labels, symbols, alt_symbols) ==
    [uri |-> OM_PREFIX \o local_name,
     labels_en |-> labels,
     alternative_labels_en |-> alt_labels,
     symbols |-> symbols,
     alternative_symbols |-> alt_symbols,
     local_name |-> local_name]

\* The names of the lookups, in the order build_om_lookup returns them.
OmLookupNames == <<"label", "alt_label", "symbol", "alt_symbol", "local_name">>

\* The strings of a unit that go into the lookup called name.
OmLookupStrings(unit, name) ==
    CASE name = "label" -> {unit.labels_en[i] : i \in DOMAIN unit.labels_en}
      [] name = "alt_label" ->
           {unit.alternative_labels_en[i] : i \in DOMAIN unit.alternative_labels_en}
      [] name = "symbol" -> {unit.symbols[i] : i \in DOMAIN unit.symbols}
      [] name = "alt_symbol" ->
           {unit.alternative_symbols[i] : i \in DOMAIN unit.alternative_symbols}
      [] name = "local_name" ->
           IF unit.local_name # "" THEN {unit.local_name} ELSE {}

\* build_om_lookup(units_list): lookup name -> normalized string -> set of URIs.
build_om_lookup(units_list) ==
    [name \in {OmLookupNames[i] : i \in DOMAIN OmLookupNames} |->
       LET keys == UNION {{normalize(text) : text \in OmLookupStrings(units_list[i], name)} :
                            i \in DOMAIN units_list}
       IN  [key \in keys |->
              {units_list[i].uri : i \in
                 {j \in DOMAIN units_list :
                    \E text \in OmLookupStrings(units_list[j], name) :
                       normalize(text) = key}}]]

\* match_dataset_to_om: the candidate strings of an entry, (source, value).
OmCandidates(entry) ==
    (IF Truthy(entry.unit) THEN <<<<"unit_name", entry.unit[1]>>>> ELSE <<>>)
    \o (IF Truthy(entry.canonical_unit)
        THEN <<<<"canonical_unit", entry.canonical_unit[1]>>>> ELSE <<>>)
    \o (IF Truthy(entry.symbol) THEN <<<<"symbol", entry.symbol[1]>>>> ELSE <<>>)
    \o (IF Truthy(entry.plural) THEN <<<<"plural", entry.plural[1]>>>> ELSE <<>>)
    \o [i \in DOMAIN entry.alternate_unit |->
          <<"alternate_unit", entry.alternate_unit[i]>>]

\* match_dataset_to_om: found_uris of an entry, uri -> set of match methods.
found_uris(entry, lookup) ==
    LET candidates == OmCandidates(entry)
        hit(uri, c, name) ==
            /\ normalize(candidates[c][2]) # ""
            /\ normalize(candidates[c][2]) \in DOMAIN lookup[name]
            /\ uri \in lookup[name][normalize(candidates[c][2])]
        uris == UNION {UNION {lookup[name][key] : key \in DOMAIN lookup[name]} :
                         name \in DOMAIN lookup}
        found == {uri \in uris :
                    \E c \in DOMAIN candidates, name \in DOMAIN lookup : hit(uri, c, name)}
    IN  [uri \in found |->
           UNION {{candidates[c][1] \o "->" \o name :
                     name \in {n \in DOMAIN lookup : hit(uri, c, n)}} :
                  c \in DOMAIN candidates}]

\* The om_matches list of an entry: sorted(found_uris.items()), ascending by
\* uri; match_methods holds the members of sorted(methods).
SortedMatches(found) ==
    LET rank(uri) == Cardinality({other \in DOMAIN found : UriLeq(other, uri)})
    IN  [k \in 1..Cardinality(DOMAIN found) |->
           LET uri == CHOOSE u \in DOMAIN found : rank(u) = k
           IN  [uri |-> uri, match_methods |-> found[uri]]]

RECURSIVE match_dataset_to_om(_, _, _)
\* The matches list match_dataset_to_om returns for the first n entries.
match_dataset_to_om(jsonl_entries, lookup, n) ==
    IF n = 0 THEN <<>>
    ELSE LET entry == jsonl_entries[n]
             found == found_uris(entry, lookup)
             before == match_dataset_to_om(jsonl_entries, lookup, n - 1)
         IN  IF DOMAIN found # {}
             THEN Append(before,
                         [unit |-> entry.unit,
                          symbol |-> entry.symbol,
                          canonical_unit |-> entry.canonical_unit,
                          property |-> entry.property,
                          system |-> entry.system,
                          om_matches |-> SortedMatches(found)])
             ELSE before

RECURSIVE load_uo_matches(_, _)
\* load_uo_matches: the lookup after the first n matches of the file.
load_uo_matches(matches, n) ==
    IF n = 0 THEN EmptyDict
    ELSE DictSet(load_uo_matches(matches, n - 1),
                 <<matches[n].unit, matches[n].symbol>>,
                 [uo_uri |-> matches[n].match_uo_uri,
                  uo_id |-> matches[n].match_uo_id])

RECURSIVE load_om_matches(_, _)
\* load_om_matches: the lookup after the first n matches of the file.
load_om_matches(matches, n) ==
    IF n = 0 THEN EmptyDict
    ELSE IF matches[n].om_matches # <<>>
         THEN DictSet(load_om_matches(matches, n - 1),
                      <<matches[n].unit, matches[n].symbol>>,
                      [om_uri |-> matches[n].om_matches[1].uri])
         ELSE load_om_matches(matches, n - 1)

RECURSIVE parse_ucum_ttl(_, _)
\* parse_ucum_ttl: the subject and the mapping after the first n lines.
parse_ucum_ttl(file, n) ==
    IF n = 0 THEN [current_local_name |-> None, uri_to_ucum |-> EmptyDict]
    ELSE LET before == parse_ucum_ttl(file, n - 1)
         IN  ReadLineBody(file[n], before.current_local_name, before.uri_to_ucum)

\* Lines 159-175: the enriched record of an entry.
EnrichEntry(entry, uo, om, ucum) ==
    LET key == <<entry.unit, entry.symbol>>
        om_uri == IF key \in DOMAIN om THEN Some(om[key].om_uri) ELSE None
    IN  [uo_uri |-> IF key \in DOMAIN uo THEN uo[key].uo_uri ELSE None,
         uo_id |-> IF key \in DOMAIN uo THEN uo[key].uo_id ELSE None,
         om_uri |-> om_uri,
         ucum_code |-> IF om_uri # None /\ om_uri[1] \in DOMAIN ucum
                       THEN Some(ucum[om_uri[1]]) ELSE None]
        @@ entry

MaxUnits == 2

CombineEntityPool == {EntryFarad, EntryMetre}

RecordSpanPlural == Record(Some("span"), Some(""), Some("metres"), Some(""), <<>>)

RecordSpan == Record(Some("span"), Some(""), Some(""), Some(""), <<>>)

CombineRecordPool == {RecordFarad, RecordMeter, RecordSpanPlural, RecordSpan}

OmUnitPool ==
    {OMUnit("farad", <<"farad">>, <<>>, <<"F">>, <<>>),
     OMUnit("degreeFahrenheit", <<"degree Fahrenheit">>, <<>>, <<"°F">>, <<"F">>),
     OMUnit("metre", <<"metre">>, <<"meter">>, <<"m">>, <<>>)}

UcumFiles ==
    {<<"om:farad\n", "  skos:notation \"F\"^^qudt:UCUMcs ;\n", ".\n">>,
     <<"om:degreeFahrenheit\n", "  skos:notation \"[degF]\"^^qudt:UCUMcs ;\n", ".\n",
       "  skos:notation \"m\"^^qudt:UCUMcs ;\n">>}

InitCombine ==
    /\ pc = "build"
    /\ hashseed \in SampleSeeds
    /\ uo_entries \in DistinctSeqs(CombineEntityPool, MaxEntities)
    /\ dataset \in SeqsUpTo(CombineRecordPool, MaxRecords)
    /\ om_units \in DistinctSeqs(OmUnitPool, MaxUnits)
    /\ lines \in UcumFiles
    /\ line_no = 0
    /\ current_local_name = None
    /\ uri_to_ucum = EmptyDict
    /\ stats = None
    /\ om_matches = <<>>
    /\ om_lookup = EmptyDict
    /\ uo_matches = <<>>
    /\ uo_lookup = EmptyDict
    /\ enriched = <<>>
    /\ name_map = EmptyDict
    /\ symbol_map = EmptyDict
    /\ results = <<>>
    /\ matched_count = 0
    /\ method_counts = EmptyDict
    /\ root = <<>>
    /\ cursor = 0
    /\ entries = <<>>
    /\ runs = <<>>
    /\ call = None
    /\ ret = None

\* uo_owl_extract.main, step 5: "matches": [r for r in match_results if r["matched"]]
SaveUoMatches ==
    /\ pc = "done"
    /\ uo_matches' = SelectSeq(results, LAMBDA r : r.matched)
    /\ pc' = "om"
    /\ UNCHANGED <<ucumVars, omVars, stats, uo_lookup, enriched, callVars, hashseed,
                   runs, extractVars, matchVars>>

\* om_rdf_extract.main, steps 6-8: build_om_lookup, match_dataset_to_om, save.
MatchDatasetToOm ==
    /\ pc = "om"
    /\ om_matches' = match_dataset_to_om(dataset, build_om_lookup(om_units),
                                         Len(dataset))
    /\ pc' = "load_uo"
    /\ UNCHANGED <<ucumVars, om_units, om_lookup, enrichVars, callVars, hashseed,
                   runs, extractVars, matchVars>>

\* combine main, step 2: uo_lookup = load_uo_matches(UO_MATCHES_PATH)
LoadUoMatches ==
    /\ pc = "load_uo"
    /\ uo_lookup' = load_uo_matches(uo_matches, Len(uo_matches))
    /\ pc' = "load_om"
    /\ UNCHANGED <<ucumVars, omVars, stats, uo_matches, enriched, callVars, hashseed,
                   runs, extractVars, matchVars>>

\* combine main, step 3: om_lookup = load_om_matches(OM_MATCHES_PATH)
LoadOmMatches ==
    /\ pc = "load_om"
    /\ om_lookup' = load_om_matches(om_matches, Len(om_matches))
    /\ pc' = "load_ucum"
    /\ UNCHANGED <<ucumVars, om_units, om_matches, enrichVars, callVars, hashseed,
                   runs, extractVars, matchVars>>

\* combine main, step 4: ucum_lookup = parse_ucum_ttl(UCUM_TTL_PATH)
ParseUcumTtl ==
    /\ pc = "load_ucum"
    /\ line_no' = Len(lines)
    /\ current_local_name' = parse_ucum_ttl(lines, Len(lines)).current_local_name
    /\ uri_to_ucum' = parse_ucum_ttl(lines, Len(lines)).uri_to_ucum
    /\ pc' = "enrich"
    /\ UNCHANGED <<lines, omVars, enrichVars, callVars, hashseed, runs, extractVars,
                   matchVars>>

\* combine main, step 5: one iteration of "for entry in dataset".
EnrichNext ==
    /\ pc = "enrich"
    /\ Len(enriched) < Len(dataset)
    /\ enriched' = Append(enriched,
                          EnrichEntry(dataset[Len(enriched) + 1], uo_lookup, om_lookup,
                                      uri_to_ucum))
    /\ UNCHANGED <<pc, ucumVars, omVars, stats, uo_matches, uo_lookup, callVars,
                   hashseed, runs, extractVars, matchVars>>

\* combine main, step 6: the enriched records are written out.
SaveEnriched ==
    /\ pc = "enrich"
    /\ Len(enriched) = Len(dataset)
    /\ pc' = "combined"
    /\ UNCHANGED <<combineVars, callVars, hashseed, runs, extractVars, matchVars>>

NextCombine ==
    \/ BuildLookup
    \/ MatchNext
    \/ ReturnResults
    \/ SaveUoMatches
    \/ MatchDatasetToOm
    \/ LoadUoMatches
    \/ LoadOmMatches
    \/ ParseUcumTtl
    \/ EnrichNext
    \/ SaveEnriched

SpecCombine == InitCombine /\ [][NextCombine]_vars

\* The OM matches of the entry at position i of the dataset, uri -> methods.
OmMatchesOf(i) == found_uris(dataset[i], build_om_lookup(om_units))

\* C25: the OM URI the combiner attaches to a dataset entry is, among the
\* entry's OM matches, one with the largest number of match methods, so an
\* entry with a single best URI by method count receives that URI.
C25_MostRelevantOmUri ==
    \A i \in 1..Len(enriched) :
       enriched[i].om_uri # None =>
          /\ enriched[i].om_uri[1] \in DOMAIN OmMatchesOf(i)
          /\ \A uri \in DOMAIN OmMatchesOf(i) :
                Cardinality(OmMatchesOf(i)[uri])
                  <= Cardinality(OmMatchesOf(i)[enriched[i].om_uri[1]])

\* C30: the enriched dataset holds every input record once, in input order,
\* with its original fields unchanged; a record has a non-null uo_uri only if
\* the match engine matched that very record, to that entity; and a non-null
\* ucum_code only with a non-null om_uri.
C30_EnrichedRecords ==
    /\ Len(enriched) <= Len(dataset)
    /\ pc = "combined" => Len(enriched) = Len(dataset)
    /\ \A i \in 1..Len(enriched) :
          /\ \A field \in DOMAIN dataset[i] : enriched[i][field] = dataset[i][field]
          /\ enriched[i].uo_uri # None =>
                /\ results[i].matched
                /\ results[i].match_uo_uri = enriched[i].uo_uri
          /\ enriched[i].ucum_code # None => enriched[i].om_uri # None

(***************************************************************************)
(* More properties of the helper functions (specification SpecCalls).      *)
(***************************************************************************)

\* The candidate's synonyms and definition share no word, and no substring
\* of a word, with the dataset unit name.
NothingShared(name, candidate) ==
    LET synonyms == candidate.exact_synonyms \o candidate.related_synonyms
                      \o candidate.narrow_synonyms
        theirs == Tokens(OrEmpty(candidate.definition))
                    \cup UNION {Tokens(synonyms[k]) : k \in 1..Len(synonyms)}
    IN  \A a \in Tokens(name) : \A b \in theirs : ~Contains(a, b) /\ ~Contains(b, a)

\* C26: symbol_match_is_plausible rejects a candidate whose label is missing
\* or empty and whose synonyms and definition share no word with the dataset
\* unit name, and rejects every labelled candidate for an empty unit name.
C26_DegenerateNamesRejected ==
    Returned("symbol_match_is_plausible") =>
       /\ (OrEmpty(call.uo_entry[1].label) = ""
             /\ NothingShared(call.text[1], call.uo_entry[1])) => ret[1] = FALSE
       /\ (call.text[1] = "" /\ OrEmpty(call.uo_entry[1].label) # "") => ret[1] = FALSE

(***************************************************************************)
(* More properties of match_dataset (specification Spec).                  *)
(***************************************************************************)

\* Normalized unit names the shape strategy applies to: those of the
\* dataset and the spelling variants of the keys of the name index.
ShapeNames ==
    {name \in {normalize_name(dataset[i].unit) : i \in 1..Len(dataset)}
                \cup UNION {generate_spelling_variants(key) : key \in DOMAIN name_map} :
       StartsWith(name, "square ") \/ StartsWith(name, "cubic ")}

\* C27: for every normalized unit name that starts with "square " or
\* "cubic " and the name index of the run, whenever try_shape_variant_match
\* finds a hit try_spelling_variant_match finds one too, and no result has
\* shape_variant as its method.
C27_ShapeSubsumedBySpelling ==
    /\ \A i \in 1..Len(results) : results[i].match_method # Some("shape_variant")
    /\ pc # "build" =>
          \A name \in ShapeNames :
             try_shape_variant_match(name, name_map, hashseed).result # None =>
                try_spelling_variant_match(name, name_map, hashseed).result # None

\* C27 witness: a record named "cubic ..." for which the shape strategy has
\* a hit needing two swaps has been matched, by the spelling-variant strategy.
C27_Witness ==
    /\ pc = "done"
    /\ \E i \in 1..Len(results) :
          /\ dataset[i].unit = Some("cubic dekameter")
          /\ try_shape_variant_match("cubic dekameter", name_map, hashseed).result # None
          /\ results[i].match_method = Some("spelling_variant")
          /\ results[i].all_matches[1].variant = "cubic decametre"

\* The uris and ids of the candidates a result records.
CandidateUris(result) ==
    {<<result.all_matches[k].uo_uri, result.all_matches[k].uo_id>> :
       k \in 1..Len(result.all_matches)}

\* C28: in every result, matched holds iff the method is set, iff the uri
\* and the id of the chosen entity are set, iff the candidate list is
\* non-empty; the chosen entity of a matched result is one of its candidates;
\* an unmatched result has no method, no entity and no candidate.
C28_MatchResultConsistent ==
    \A i \in 1..Len(results) :
       LET r == results[i] IN
       /\ r.matched <=> r.match_method # None
       /\ r.matched <=> r.match_uo_uri # None
       /\ r.matched <=> r.match_uo_id # None
       /\ r.matched <=> r.all_matches # <<>>
       /\ r.matched => <<r.match_uo_uri[1], r.match_uo_id[1]>> \in CandidateUris(r)
       /\ ~r.matched => r.match_uo_label = None

\* C28 witness: the run is over with a result matched by its plural and an
\* unmatched result.
C28_Witness ==
    /\ pc = "done"
    /\ \E i \in 1..Len(results) :
          results[i].matched /\ results[i].match_method = Some("plural_to_uo")
    /\ \E i \in 1..Len(results) : ~results[i].matched

(***************************************************************************)
(* Spelling variants (specification SpecCalls).                            *)
(***************************************************************************)

\* C29: every string generate_spelling_variants returns differs from the
\* input, and none contains "grammeme": the second pass does not apply
\* gram -> gramme to a first-pass result that already contains "gramme".
C29_VariantsWellFormed ==
    Returned("generate_spelling_variants") =>
       \A variant \in ret[1] :
          /\ variant # call.text[1]
          /\ ~Contains(variant, "grammeme")

====
